---- MODULE Spec2Model ----
(***************************************************************************)
(* RustPrompt: the session state (AppState), the command router (execute), *)
(* the snippet cache operations (SnippetManager), the REPL loop            *)
(* (ReplEngine::run) and the tree renderer (generate_project_tree_string), *)
(* as a state machine.                                                     *)
(*                                                                         *)
(* Text is a sequence of atoms.  An atom is a short string standing for a  *)
(* piece of text without a line break, or "\n" for the line break.  A      *)
(* document text (cached_xml) is a sequence of elements; an element is a   *)
(* record [tag, index, source, body].                                      *)
(*                                                                         *)
(* Every `state.lock().unwrap()` scope of the source is a critical         *)
(* section: the action Acquire takes the mutex at the scope's start, the   *)
(* scope's own action applies its body and releases it.                    *)
(***************************************************************************)
EXTENDS Integers, Sequences, FiniteSets, TLC

\* ------------------------------------------------------------------ bounds
\* Real file paths are 1..NumPaths, ordered as PathBuf orders them.
NumPaths == 2
\* Longest pending instruction (in atoms) a free-text line may be appended up to.
MaxPromptLen == 1
\* The same in a run that draws from the "text" inputs.
MaxTextLen == 5

\* --------------------------------------------------------------- constants
\* The reserved key of the project tree snippet ("__PROJECT_TREE__").
PROJECT_TREE_VIRTUAL_PATH == 0

Paths == 1..NumPaths
Keys == Paths \cup {PROJECT_TREE_VIRTUAL_PATH}

\* The text fs::read_to_string gives for a file it can read; a file it cannot
\* read gives Err, which unwrap_or_default turns into the empty string.
Contents == {<<"c">>}
\* What generate_project_tree_string(..).unwrap_or_else(|_| "") can give: the
\* rendered tree, or the empty string when rendering fails.
TreeTexts == {<<>>, <<"t">>}

NL == "\n"
SUBMIT == ":submit"

VARIABLES
    \* AppState
    selected_paths, file_count, token_count, partial_docs, cached_xml,
    mode, prompt_text, editor_mode,
    \* ReplEngine
    running,
    \* whether tiktoken's get_bpe_from_model gives an encoder in this build
    bpe_loads,
    \* the Mutex around AppState
    locked,
    \* control: the position of the (single) REPL task
    pc,
    \* the input read by read_line, and the command built from it
    sig, cmd,
    \* locals of run / execute / SnippetManager
    current_mode, scanned, new_snips, tree_snippet, num_changed, xml_to_copy,
    \* what execute returned, the notice it printed, the clipboard outcome
    result, notice, clip,
    \* AppState as it was when the input was read (history, for the claims)
    pre,
    \* the lines appended since prompt_text was last empty; <<>> when prompt_text
    \* was last set by a multi-line commit (history, for the claims)
    appended,
    \* local of add_files_snippet / full_refresh: what read_to_string returned for
    \* each file of the batch
    reads,
    \* the locals of generate_project_tree_string while it renders a tree
    tb,
    \* the file system below the root and the locals of scan_dir while it resolves
    \* an argument on it
    sd,
    \* which input domain the run draws from: "files" (all scan results, read
    \* failures and tree texts, short instructions), "text" (one file, longer
    \* instructions and captures) or "live" (one file, short instructions,
    \* captures that hold command lines); it never changes
    inputs

app == <<selected_paths, file_count, token_count, partial_docs, cached_xml,
         mode, prompt_text, editor_mode>>
locals == <<current_mode, scanned, new_snips, tree_snippet, num_changed, xml_to_copy>>
vars == <<selected_paths, file_count, token_count, partial_docs, cached_xml,
          mode, prompt_text, editor_mode, running, locked, pc, sig, cmd,
          current_mode, scanned, new_snips, tree_snippet, num_changed, xml_to_copy,
          result, notice, clip, pre, bpe_loads, appended, inputs,
          reads, tb, sd>>

\* ------------------------------------------------------------ text helpers
EmptyMap == [k \in {} |-> <<>>]

\* HashMap::insert of every pair of `m` into `cache`.
InsertAll(cache, m) ==
    [k \in (DOMAIN cache) \cup (DOMAIN m) |-> IF k \in DOMAIN m THEN m[k] ELSE cache[k]]

\* HashMap::remove of every key of `ks`.
RemoveAll(cache, ks) == [k \in (DOMAIN cache) \ ks |-> cache[k]]

Element(t, i, s, b) == [tag |-> t, index |-> i, source |-> s, body |-> b]
OpenTag == Element("<documents>", 0, 0, <<>>)
CloseTag == Element("</documents>", 0, 0, <<>>)
InstructionTag(text) == Element("instruction", 0, 0, text)

\* generate_single_file_snippet(path, content, index): one <document> fragment.
generate_single_file_snippet(path, content, index) ==
    Element("document", index, path, content)

\* The fragment with the value of its index attribute replaced.
SetIndex(snip, i) == [snip EXCEPT !.index = i]

\* All orders in which a HashMap holding the keys S can be iterated.
Orders(S) ==
    {s \in [1..Cardinality(S) -> S] : \A i, j \in 1..Cardinality(S) : i # j => s[i] # s[j]}

\* Insertion of key k into the ascending sequence s.
RECURSIVE InsertSorted(_, _)
InsertSorted(k, s) ==
    IF s = <<>> THEN <<k>>
    ELSE IF k <= Head(s) THEN <<k>> \o s
    ELSE <<Head(s)>> \o InsertSorted(k, Tail(s))

\* sort of a sequence of paths, ascending.
RECURSIVE SortPaths(_)
SortPaths(s) == IF s = <<>> THEN <<>> ELSE InsertSorted(Head(s), SortPaths(Tail(s)))

\* Rust's str::split('\n'): the segments between line breaks.
RECURSIVE Split(_)
Split(s) ==
    IF s = <<>> THEN << <<>> >>
    ELSE LET r == Split(Tail(s))
         IN IF Head(s) = NL THEN << <<>> >> \o r
            ELSE << <<Head(s)>> \o Head(r) >> \o Tail(r)

\* Rust's str::lines(): the segments, without a final empty one.
Lines(s) ==
    LET segs == Split(s)
    IN IF segs[Len(segs)] = <<>> THEN SubSeq(segs, 1, Len(segs) - 1) ELSE segs

\* Rust's [&str]::join("\n").
RECURSIVE Join(_)
Join(ls) ==
    IF ls = <<>> THEN <<>>
    ELSE IF Len(ls) = 1 THEN ls[1]
    ELSE ls[1] \o <<NL>> \o Join(Tail(ls))

\* Rust's str::trim() on one line: leading and trailing blanks removed.
RECURSIVE TrimStart(_)
TrimStart(s) == IF s # <<>> /\ Head(s) = " " THEN TrimStart(Tail(s)) ELSE s
RECURSIVE TrimEnd(_)
TrimEnd(s) ==
    IF s # <<>> /\ s[Len(s)] = " " THEN TrimEnd(SubSeq(s, 1, Len(s) - 1)) ELSE s
Trim(s) == TrimEnd(TrimStart(s))

\* str::split_whitespace(): the atoms that are not blanks.
Words(s) == LET NotBlank(a) == a # " " /\ a # NL IN SelectSeq(s, NotBlank)

\* The atoms that begin with the command sigil '/'.
SlashAtoms == {"/add", "/remove", "/context", "/copy", "/reset", "/help", "/quit",
               "/resetprompt", "/mode", "/prompt", "/foo"}
StartsWithSlash(s) == s # <<>> /\ s[1] \in SlashAtoms

\* str::to_lowercase() on the mode names the inputs use.
to_lowercase(m) ==
    CASE m = "Manual" -> "manual"
      [] m = "Prompt" -> "prompt"
      [] OTHER -> m

\* ---------------------------------------------------------------- commands
Cmd(k, a) == [kind |-> k, arg |-> a]
NoCmd == Cmd("None", <<>>)

\* command::parser::parse
parse(input) ==
    IF ~StartsWithSlash(input) THEN Cmd("Unknown", input)
    ELSE LET parts == Words(Trim(input))
             cmd_str == parts[1]
             arg_str == IF Len(parts) >= 2 THEN <<parts[2]>> ELSE <<>>
         IN CASE cmd_str = "/add" -> Cmd("Add", arg_str)
              [] cmd_str = "/remove" -> Cmd("Remove", arg_str)
              [] cmd_str = "/context" -> Cmd("ShowContext", <<>>)
              [] cmd_str = "/copy" -> Cmd("Copy", <<>>)
              [] cmd_str = "/reset" -> Cmd("Reset", <<>>)
              [] cmd_str = "/help" -> Cmd("Help", <<>>)
              [] cmd_str = "/quit" -> Cmd("Quit", <<>>)
              [] cmd_str = "/resetprompt" -> Cmd("ResetPrompt", <<>>)
              [] cmd_str = "/mode" -> Cmd("Mode", arg_str)
              [] cmd_str = "/prompt" -> Cmd("Prompt", <<>>)
              [] OTHER -> Cmd("Unknown", input)

\* is_command_valid_in_mode with Command::Reset listed under Prompt as well.
is_command_valid_in_mode_ResetInPrompt(c, m) ==
    IF m = "Manual"
    THEN c.kind \in {"Add", "Remove", "ShowContext", "Copy", "Reset", "Help", "Quit",
                     "Mode", "ResetPrompt", "Prompt"}
    ELSE c.kind \in {"Mode", "Prompt", "ShowContext", "Copy", "Help", "Quit",
                     "AppendPromptText", "ResetPrompt", "Reset"}

\* command::executor::is_command_valid_in_mode
is_command_valid_in_mode(c, m) ==
    IF m = "Manual"
    THEN c.kind \in {"Add", "Remove", "ShowContext", "Copy", "Reset", "Help", "Quit",
                     "Mode", "ResetPrompt", "Prompt"}
    ELSE c.kind \in {"Mode", "Prompt", "ShowContext", "Copy", "Help", "Quit",
                     "AppendPromptText", "ResetPrompt"}

\* merge_all_snippets without the sort: the real fragments are numbered in the
\* order the HashMap yields them.
merge_all_snippets_Unsorted(cache, order) ==
    LET IsReal(k) == k # PROJECT_TREE_VIRTUAL_PATH
        reals == SelectSeq(order, IsReal)
        tree == IF PROJECT_TREE_VIRTUAL_PATH \in DOMAIN cache
                THEN <<SetIndex(cache[PROJECT_TREE_VIRTUAL_PATH], 1)>>
                ELSE <<>>
    IN <<OpenTag>> \o tree
       \o [i \in 1..Len(reals) |-> SetIndex(cache[reals[i]], i + 1)]
       \o <<CloseTag>>

\* merge_all_snippets taking the fragments in the HashMap's order, tree included.
merge_all_snippets_HashOrder(cache, order) ==
    <<OpenTag>> \o [i \in 1..Len(order) |-> SetIndex(cache[order[i]], i)] \o <<CloseTag>>

\* ------------------------------------------------------------ merge engine
\* merge_all_snippets(&partial_docs), with `order` the order in which the HashMap
\* happens to be iterated: the tree fragment first with index 1, then the real
\* fragments in ascending path order with indices 2.., inside one root element.
merge_all_snippets(cache, order) ==
    LET IsReal(k) == k # PROJECT_TREE_VIRTUAL_PATH
        reals == SortPaths(SelectSeq(order, IsReal))
        tree == IF PROJECT_TREE_VIRTUAL_PATH \in DOMAIN cache
                THEN <<SetIndex(cache[PROJECT_TREE_VIRTUAL_PATH], 1)>>
                ELSE <<>>
    IN <<OpenTag>> \o tree
       \o [i \in 1..Len(reals) |-> SetIndex(cache[reals[i]], i + 1)]
       \o <<CloseTag>>

\* The tokens one element of a document text encodes to.
ElementTokens(e) ==
    CASE e.tag = "document" -> 3 + Len(e.body)
      [] e.tag = "instruction" -> 2 + Len(e.body)
      [] OTHER -> 1

\* core::tokenizer::calculate_tokens_in_string, when the encoder loads:
\* bpe.encode_ordinary(s).len().  get_bpe_from_model builds the encoder from data
\* compiled into the binary, so whether it loads (bpe_loads) is fixed for a run.
RECURSIVE calculate_tokens_in_string(_)
calculate_tokens_in_string(s) ==
    IF s = <<>> THEN 0 ELSE ElementTokens(Head(s)) + calculate_tokens_in_string(Tail(s))

\* String::rfind("</documents>"): the last position of the closing root tag, 0 if none.
RECURSIVE rfind_close(_)
rfind_close(s) ==
    IF s = <<>> THEN 0
    ELSE IF s[Len(s)].tag = "</documents>" THEN Len(s)
    ELSE rfind_close(SubSeq(s, 1, Len(s) - 1))

\* String::insert_str(idx, ..) of one element.
insert_at(s, idx, e) == SubSeq(s, 1, idx - 1) \o <<e>> \o SubSeq(s, idx, Len(s))

\* ------------------------------------------------------------------ inputs
\* Lines the user can submit while the editor is in single-line configuration.
TextLines == {<<"x">>}
CommandLines ==
    {<<"/add", " ", "p">>, <<"/remove", " ", "p">>, <<"/context">>, <<"/copy">>,
     <<"/reset">>, <<"/help">>, <<"/quit">>, <<"/resetprompt">>, <<"/prompt">>,
     <<"/mode">>, <<"/mode", " ", "manual">>, <<"/mode", " ", "Prompt">>,
     <<"/mode", " ", "bogus">>, <<"/foo">>}
SingleLineInputs == TextLines \cup CommandLines \cup {<<" ">>}

\* Lines typed into a multi-line capture before the sentinel line.
CapLines == {<<>>, <<"x">>}
\* The sentinel line as the user may type it (SubmitValidator trims it).
SentinelLines == {<<SUBMIT>>, <<SUBMIT, " ">>}
\* Buffers the multi-line editor returns: SubmitValidator lets read_line return
\* Success only when the last line, trimmed, is ":submit".
Captures ==
    {Join(ls \o <<sl>>) : ls \in {<<>>} \cup {<<l>> : l \in CapLines},
                          sl \in SentinelLines}

\* The "text" inputs add a second free-text line and captures of two lines.
MoreTextLines == {<<"y">>}
MoreCaptures ==
    {Join(<<l, m, sl>>) : l \in CapLines, m \in MoreTextLines, sl \in SentinelLines}

\* The "live" inputs add captures whose first line begins with the command sigil.
SigilLines == {<<"/reset">>, <<"/mode", " ", "manual">>}
SigilCaptures == {Join(<<l, sl>>) : l \in SigilLines, sl \in SentinelLines}

\* What scan_dir can resolve an argument to, what a file read can give and what
\* the tree renderer can give, in the input domain of the run.
ScanResults == IF inputs = "files" THEN SUBSET Paths ELSE {{}, {1}}
FileContents == Contents
TreeTextsNow == IF inputs = "files" THEN TreeTexts ELSE {<<"t">>}

Signal(k, b) == [kind |-> k, buffer |-> b]
NoSignal == Signal("None", <<>>)

\* What Reedline::read_line can return with the editor configured for `em`: a
\* submitted buffer, or an interrupt (Signal::CtrlC or Signal::CtrlD, one match arm).
Signals(em) ==
    {Signal("Success", b) :
        b \in IF em = "MultiLine"
              THEN Captures \cup (IF inputs = "text" THEN MoreCaptures ELSE {})
                            \cup (IF inputs = "live" THEN SigilCaptures ELSE {})
              ELSE SingleLineInputs \cup (IF inputs = "text" THEN MoreTextLines ELSE {})}
    \cup {Signal("Interrupt", <<>>)}

\* ------------------------------------------------------------------- state
\* No tree is being rendered.
NoTree == [stage |-> "idle"]
\* No argument is being resolved on a modelled file system.
NoScan == [stage |-> "idle"]

AppRec ==
    [selected_paths |-> selected_paths, file_count |-> file_count,
     token_count |-> token_count, partial_docs |-> partial_docs,
     cached_xml |-> cached_xml, mode |-> mode, prompt_text |-> prompt_text,
     editor_mode |-> editor_mode]

\* AppState::new, ReplEngine::new
Constructed ==
    /\ selected_paths = {}
    /\ file_count = 0
    /\ token_count = 0
    /\ partial_docs = EmptyMap
    /\ cached_xml = <<>>
    /\ mode = "Manual"
    /\ prompt_text = <<>>
    /\ editor_mode = "SingleLine"
    /\ running = TRUE
    /\ bpe_loads \in BOOLEAN
    /\ locked = FALSE
    /\ pc = "read"
    /\ sig = NoSignal
    /\ cmd = NoCmd
    /\ current_mode = "-"
    /\ scanned = {}
    /\ new_snips = EmptyMap
    /\ tree_snippet = <<>>
    /\ num_changed = 0
    /\ xml_to_copy = <<>>
    /\ result = "none"
    /\ notice = "none"
    /\ clip = "none"
    /\ pre = <<>>
    /\ appended = <<>>
    /\ reads = EmptyMap

Init == Constructed /\ inputs = "files" /\ tb = NoTree /\ sd = NoScan
\* The same program, drawing from the "text" inputs.
InitText == Constructed /\ inputs = "text" /\ tb = NoTree /\ sd = NoScan
\* The same program, drawing from the "live" inputs.
InitLive == Constructed /\ inputs = "live" /\ tb = NoTree /\ sd = NoScan

\* The loop of run goes back to read_line: the locals of the iteration are gone.
NextIteration ==
    /\ pc' = "read"
    /\ sig' = NoSignal
    /\ cmd' = NoCmd
    /\ current_mode' = "-"
    /\ scanned' = {}
    /\ new_snips' = EmptyMap
    /\ tree_snippet' = <<>>
    /\ num_changed' = 0
    /\ xml_to_copy' = <<>>
    /\ result' = "none"
    /\ notice' = "none"
    /\ clip' = "none"
    /\ pre' = <<>>
    /\ reads' = EmptyMap

\* The pc values at which a `state.lock().unwrap()` scope begins.
CriticalPcs ==
    {"ml_commit", "exit_ml", "enter_ml",
     "enter_ml_show", "exec_mode", "add_select", "afs_insert", "tree_insert", "rebuild",
     "rm_select", "ctx", "copy_paths", "fr_clear", "fr_insert", "copy_instr", "reset",
     "help", "mode_cmd", "prompt_switch", "resetprompt", "append"}

\* Mutex::lock: the scope at pc begins once the mutex is free.
Acquire ==
    /\ pc \in CriticalPcs
    /\ ~locked
    /\ locked' = TRUE
    /\ UNCHANGED <<app, running, pc, sig, cmd, locals, result, notice, clip, pre>>
    /\ UNCHANGED <<bpe_loads, inputs, appended, tb, sd>>
    /\ UNCHANGED reads

\* A scope's body runs with the mutex held and releases it at its end.
InScope(p) == pc = p /\ locked /\ locked' = FALSE

\* The model lets appended text grow prompt_text to MaxPromptLen atoms (MaxTextLen
\* with the "text" inputs): a free-text line that would make it longer is not
\* offered.
FitsPrompt(s) ==
    (s.kind = "Success" /\ mode = "Prompt" /\ editor_mode = "SingleLine"
        /\ s.buffer \in TextLines \cup MoreTextLines)
    => (IF prompt_text = <<>> THEN 0 ELSE Len(prompt_text) + 1) + Len(s.buffer)
         <= (IF inputs = "text" THEN MaxTextLen ELSE MaxPromptLen)

\* run handing a multi-line buffer whose first line begins with the command sigil
\* to the parser instead of committing it.
ReadLine_DispatchesCapture ==
    /\ pc = "read" /\ running /\ ~locked
    /\ \E s \in Signals(editor_mode) :
         /\ FitsPrompt(s)
         /\ IF s.kind = "Interrupt"
            THEN IF editor_mode = "MultiLine"
                 THEN /\ pc' = "exit_ml" /\ sig' = s /\ pre' = <<AppRec>>
                      /\ UNCHANGED <<running, cmd>>
                 ELSE /\ running' = FALSE
                      /\ UNCHANGED <<pc, sig, cmd, pre>>
            ELSE IF editor_mode = "MultiLine" /\ ~StartsWithSlash(s.buffer)
                 THEN /\ pc' = "ml_commit" /\ sig' = s /\ pre' = <<AppRec>>
                      /\ UNCHANGED <<running, cmd>>
            ELSE IF Trim(s.buffer) = <<>>
                 THEN /\ sig' = s
                      /\ UNCHANGED <<running, pc, cmd, pre>>
            ELSE LET current_repl_mode == mode
                     is_prompt_input ==
                         current_repl_mode = "Prompt" /\ ~StartsWithSlash(s.buffer)
                     c == IF is_prompt_input THEN Cmd("AppendPromptText", s.buffer)
                          ELSE parse(s.buffer)
                 IN /\ sig' = s
                    /\ cmd' = c
                    /\ pre' = <<AppRec>>
                    /\ pc' = IF ~is_prompt_input /\ c.kind = "Prompt"
                                  /\ current_repl_mode = "Prompt"
                             THEN "enter_ml" ELSE "exec_mode"
                    /\ UNCHANGED running
    /\ UNCHANGED <<app, locked, locals, result, notice, clip>>
    /\ UNCHANGED <<bpe_loads, inputs, appended, tb, sd>>
    /\ UNCHANGED reads

\* ------------------------------------------------------------- ReplEngine::run
\* One turn of the loop up to its routing decision: read_line returns a signal;
\* run reads editor_mode and, for a single-line input, mode (two read-only lock
\* scopes, taken as part of this step), skips a blank line (`continue`: the buffer
\* read stays in sig until the next read_line), turns free text in
\* Prompt mode into AppendPromptText, parses anything else, and enters the
\* multi-line editor directly for /prompt in Prompt mode.
ReadLine ==
    /\ pc = "read" /\ running /\ ~locked
    /\ \E s \in Signals(editor_mode) :
         /\ FitsPrompt(s)
         /\ IF s.kind = "Interrupt"
            THEN IF editor_mode = "MultiLine"
                 THEN /\ pc' = "exit_ml" /\ sig' = s /\ pre' = <<AppRec>>
                      /\ UNCHANGED <<running, cmd>>
                 ELSE /\ running' = FALSE
                      /\ UNCHANGED <<pc, sig, cmd, pre>>
            ELSE IF editor_mode = "MultiLine"
                 THEN /\ pc' = "ml_commit" /\ sig' = s /\ pre' = <<AppRec>>
                      /\ UNCHANGED <<running, cmd>>
            ELSE IF Trim(s.buffer) = <<>>
                 THEN /\ sig' = s
                      /\ UNCHANGED <<running, pc, cmd, pre>>
            ELSE LET current_repl_mode == mode
                     is_prompt_input ==
                         current_repl_mode = "Prompt" /\ ~StartsWithSlash(s.buffer)
                     c == IF is_prompt_input THEN Cmd("AppendPromptText", s.buffer)
                          ELSE parse(s.buffer)
                 IN /\ sig' = s
                    /\ cmd' = c
                    /\ pre' = <<AppRec>>
                    /\ pc' = IF ~is_prompt_input /\ c.kind = "Prompt"
                                  /\ current_repl_mode = "Prompt"
                             THEN "enter_ml" ELSE "exec_mode"
                    /\ UNCHANGED running
    /\ UNCHANGED <<app, locked, locals, result, notice, clip>>
    /\ UNCHANGED <<bpe_loads, inputs, appended, tb, sd>>
    /\ UNCHANGED reads

\* read_line returns Err: the loop stops.
ReadError ==
    /\ pc = "read" /\ running /\ ~locked
    /\ running' = FALSE
    /\ UNCHANGED <<app, locked, pc, sig, cmd, locals, result, notice, clip, pre>>
    /\ UNCHANGED <<bpe_loads, inputs, appended, tb, sd>>
    /\ UNCHANGED reads

\* Multi-line submit adding the captured text to prompt_text instead of replacing it.
MultiLineCommit_Appends ==
    /\ InScope("ml_commit")
    /\ LET lines == Lines(sig.buffer)
           kept == IF lines # <<>> /\ Trim(lines[Len(lines)]) = <<SUBMIT>>
                   THEN SubSeq(lines, 1, Len(lines) - 1) ELSE lines
           final_text == Join(kept)
       IN prompt_text' = IF prompt_text = <<>> THEN final_text
                         ELSE prompt_text \o <<NL>> \o final_text
    /\ pc' = "exit_ml"
    /\ UNCHANGED <<selected_paths, file_count, token_count, partial_docs, cached_xml,
                   mode, editor_mode, running, sig, cmd, locals, result, notice, clip, pre>>
    /\ appended' = <<>>
    /\ UNCHANGED <<bpe_loads, inputs, tb, sd>>
    /\ UNCHANGED reads

\* Multi-line submit: the trailing ":submit" line is dropped and the rest replaces
\* prompt_text.
MultiLineCommit ==
    /\ InScope("ml_commit")
    /\ LET lines == Lines(sig.buffer)
           kept == IF lines # <<>> /\ Trim(lines[Len(lines)]) = <<SUBMIT>>
                   THEN SubSeq(lines, 1, Len(lines) - 1) ELSE lines
           final_text == Join(kept)
       IN prompt_text' = final_text
    /\ pc' = "exit_ml"
    /\ UNCHANGED <<selected_paths, file_count, token_count, partial_docs, cached_xml,
                   mode, editor_mode, running, sig, cmd, locals, result, notice, clip, pre>>
    /\ appended' = <<>>
    /\ UNCHANGED <<bpe_loads, inputs, tb, sd>>
    /\ UNCHANGED reads

\* exit_multiline_mode throwing away prompt_text as well when the capture is
\* cancelled.
exit_multiline_mode_CancelClears ==
    /\ InScope("exit_ml")
    /\ editor_mode' = "SingleLine"
    /\ prompt_text' = IF sig.kind = "Interrupt" THEN <<>> ELSE prompt_text
    /\ NextIteration
    /\ UNCHANGED <<selected_paths, file_count, token_count, partial_docs, cached_xml,
                   mode, running>>
    /\ UNCHANGED <<bpe_loads, inputs, appended, tb, sd>>

\* exit_multiline_mode restoring the single-line editor without writing editor_mode.
exit_multiline_mode_KeepsMultiLine ==
    /\ InScope("exit_ml")
    /\ editor_mode' = editor_mode
    /\ NextIteration
    /\ UNCHANGED <<selected_paths, file_count, token_count, partial_docs, cached_xml,
                   mode, prompt_text, running>>
    /\ UNCHANGED <<bpe_loads, inputs, appended, tb, sd>>

\* ReplEngine::exit_multiline_mode
exit_multiline_mode ==
    /\ InScope("exit_ml")
    /\ editor_mode' = "SingleLine"
    /\ NextIteration
    /\ UNCHANGED <<selected_paths, file_count, token_count, partial_docs, cached_xml,
                   mode, prompt_text, running>>
    /\ UNCHANGED <<bpe_loads, inputs, appended, tb, sd>>

\* enter_multiline_mode emptying prompt_text together with the editor's buffer.
enter_multiline_mode_ClearsPrompt ==
    /\ InScope("enter_ml")
    /\ editor_mode' = "MultiLine"
    /\ prompt_text' = <<>>
    /\ pc' = "enter_ml_show"
    /\ UNCHANGED <<selected_paths, file_count, token_count, partial_docs, cached_xml,
                   mode, running, sig, cmd, locals, result, notice, clip, pre>>
    /\ UNCHANGED <<bpe_loads, inputs, appended, tb, sd>>
    /\ UNCHANGED reads

\* ReplEngine::enter_multiline_mode, first scope: the editor mode is set.
enter_multiline_mode ==
    /\ InScope("enter_ml")
    /\ editor_mode' = "MultiLine"
    /\ pc' = "enter_ml_show"
    /\ UNCHANGED <<selected_paths, file_count, token_count, partial_docs, cached_xml,
                   mode, prompt_text, running, sig, cmd, locals, result, notice, clip, pre>>
    /\ UNCHANGED <<bpe_loads, inputs, appended, tb, sd>>
    /\ UNCHANGED reads

\* ReplEngine::enter_multiline_mode, second scope: the current prompt_text is read
\* and printed (the new editor's buffer starts empty). Called from run it continues
\* the loop; called from execute (Command::Prompt) it returns there.
enter_multiline_show ==
    /\ InScope("enter_ml_show")
    /\ IF current_mode = "-"
       THEN NextIteration
       ELSE /\ result' = "ok"
            /\ pc' = "done"
            /\ UNCHANGED <<sig, cmd, locals, notice, clip, pre, reads>>
    /\ UNCHANGED <<app, running>>
    /\ UNCHANGED <<bpe_loads, inputs, appended, tb, sd>>

\* execute has returned to run: an error is printed, Quit stops the loop.
Done ==
    /\ pc = "done" /\ ~locked
    /\ running' = (cmd.kind # "Quit")
    /\ NextIteration
    /\ UNCHANGED <<app, locked>>
    /\ UNCHANGED <<bpe_loads, inputs, appended, tb, sd>>

\* ---------------------------------------------------------------- execute
\* execute begins by reading the current mode in a scope of its own; what it does
\* next depends only on that mode and the command.
\* Command::Unknown is reported and execute returns Ok.
ExecUnknown ==
    /\ InScope("exec_mode")
    /\ current_mode' = mode
    /\ cmd.kind = "Unknown"
    /\ notice' = "unknown_command"
    /\ result' = "ok"
    /\ pc' = "done"
    /\ UNCHANGED <<app, running, sig, cmd, scanned, new_snips, tree_snippet, num_changed,
                   xml_to_copy, clip, pre>>
    /\ UNCHANGED <<bpe_loads, inputs, appended, tb, sd>>
    /\ UNCHANGED reads

\* ExecReject as it would be if a refused command were reported as an error.
ExecReject_AsError ==
    /\ InScope("exec_mode")
    /\ current_mode' = mode
    /\ cmd.kind # "Unknown"
    /\ ~is_command_valid_in_mode(cmd, mode)
    /\ notice' = "not_available"
    /\ result' = "err"
    /\ pc' = "done"
    /\ UNCHANGED <<app, running, sig, cmd, scanned, new_snips, tree_snippet, num_changed,
                   xml_to_copy, clip, pre>>
    /\ UNCHANGED <<bpe_loads, inputs, appended, tb, sd>>
    /\ UNCHANGED reads

\* A command that is_command_valid_in_mode refuses gets a note; execute returns Ok.
ExecReject ==
    /\ InScope("exec_mode")
    /\ current_mode' = mode
    /\ cmd.kind # "Unknown"
    /\ ~is_command_valid_in_mode(cmd, mode)
    /\ notice' = "not_available"
    /\ result' = "ok"
    /\ pc' = "done"
    /\ UNCHANGED <<app, running, sig, cmd, scanned, new_snips, tree_snippet, num_changed,
                   xml_to_copy, clip, pre>>
    /\ UNCHANGED <<bpe_loads, inputs, appended, tb, sd>>
    /\ UNCHANGED reads

\* The arm of `match cmd` a valid command runs.
FirstPc(kind) ==
    CASE kind = "Add" -> "add_scan"
      [] kind = "Remove" -> "rm_scan"
      [] kind = "ShowContext" -> "ctx"
      [] kind = "Copy" -> "copy_paths"
      [] kind = "Reset" -> "reset"
      [] kind = "Help" -> "help"
      [] kind = "Quit" -> "quit"
      [] kind = "Mode" -> "mode_cmd"
      [] kind = "Prompt" -> "prompt_switch"
      [] kind = "ResetPrompt" -> "resetprompt"
      [] kind = "AppendPromptText" -> "append"

\* A valid command goes to its arm of `match cmd`.
ExecDispatch ==
    /\ InScope("exec_mode")
    /\ current_mode' = mode
    /\ cmd.kind # "Unknown"
    /\ is_command_valid_in_mode(cmd, mode)
    /\ pc' = FirstPc(cmd.kind)
    /\ UNCHANGED <<app, running, sig, cmd, scanned, new_snips, tree_snippet, num_changed,
                   xml_to_copy, result, notice, clip, pre>>
    /\ UNCHANGED <<bpe_loads, inputs, appended, tb, sd>>
    /\ UNCHANGED reads

\* execute returns Ok(()) / Err(e) to run.
Return(r) == result' = r /\ pc' = "done"

\* files_scanner::scan_dir on an existing path: the files it resolves to.
scan_dir ==
    /\ pc \in {"add_scan", "rm_scan"} /\ ~locked
    /\ \E files \in ScanResults : scanned' = files
    /\ pc' = IF pc = "add_scan" THEN "add_select" ELSE "rm_select"
    /\ UNCHANGED <<app, running, locked, sig, cmd, current_mode, new_snips, tree_snippet,
                   num_changed, xml_to_copy, result, notice, clip, pre>>
    /\ UNCHANGED <<bpe_loads, inputs, appended, tb, sd>>
    /\ UNCHANGED reads

\* scan_dir failing after the cache has been dropped.
scan_dir_err_DropsCache ==
    /\ pc \in {"add_scan", "rm_scan"} /\ ~locked
    /\ Return("err")
    /\ partial_docs' = EmptyMap
    /\ UNCHANGED <<selected_paths, file_count, token_count, cached_xml, mode, prompt_text,
                   editor_mode, running, locked, sig, cmd, locals, notice, clip, pre>>
    /\ UNCHANGED <<bpe_loads, inputs, appended, tb, sd>>
    /\ UNCHANGED reads

\* files_scanner::scan_dir fails (the path does not exist, a walk error): `?`
\* returns the error from execute.
scan_dir_err ==
    /\ pc \in {"add_scan", "rm_scan"} /\ ~locked
    /\ Return("err")
    /\ UNCHANGED <<app, running, locked, sig, cmd, locals, notice, clip, pre>>
    /\ UNCHANGED <<bpe_loads, inputs, appended, tb, sd>>
    /\ UNCHANGED reads

\* Command::Add assigning the scanned files instead of inserting them.
AddSelect_Replaces ==
    /\ InScope("add_select")
    /\ LET init_count == Cardinality(selected_paths)
           final_count == Cardinality(scanned)
           num_added == final_count - init_count
       IN /\ selected_paths' = scanned
          /\ file_count' = final_count
          /\ num_changed' = num_added
          /\ IF num_added > 0 \/ scanned = {}
             THEN pc' = "afs_read" /\ result' = result
             ELSE Return("ok")
    /\ UNCHANGED <<token_count, partial_docs, cached_xml, mode, prompt_text, editor_mode,
                   running, sig, cmd, current_mode, scanned, new_snips, tree_snippet,
                   xml_to_copy, notice, clip, pre>>
    /\ UNCHANGED <<bpe_loads, inputs, appended, tb, sd>>
    /\ UNCHANGED reads

\* Command::Add refreshing only when files were added (`if num_added > 0`).
AddSelect_SkipsEmptyBatch ==
    /\ InScope("add_select")
    /\ LET init_count == Cardinality(selected_paths)
           final_count == Cardinality(selected_paths \cup scanned)
           num_added == final_count - init_count
       IN /\ selected_paths' = selected_paths \cup scanned
          /\ file_count' = final_count
          /\ num_changed' = num_added
          /\ IF num_added > 0
             THEN pc' = "afs_read" /\ result' = result
             ELSE Return("ok")
    /\ UNCHANGED <<token_count, partial_docs, cached_xml, mode, prompt_text, editor_mode,
                   running, sig, cmd, current_mode, scanned, new_snips, tree_snippet,
                   xml_to_copy, notice, clip, pre>>
    /\ UNCHANGED <<bpe_loads, inputs, appended, tb, sd>>
    /\ UNCHANGED reads

\* Command::Add, the scope that extends selected_paths.
AddSelect ==
    /\ InScope("add_select")
    /\ LET init_count == Cardinality(selected_paths)
           final_count == Cardinality(selected_paths \cup scanned)
           num_added == final_count - init_count
       IN /\ selected_paths' = selected_paths \cup scanned
          /\ file_count' = final_count
          /\ num_changed' = num_added
          /\ IF num_added > 0 \/ scanned = {}
             THEN pc' = "afs_read" /\ result' = result
             ELSE Return("ok")
    /\ UNCHANGED <<token_count, partial_docs, cached_xml, mode, prompt_text, editor_mode,
                   running, sig, cmd, current_mode, scanned, new_snips, tree_snippet,
                   xml_to_copy, notice, clip, pre>>
    /\ UNCHANGED <<bpe_loads, inputs, appended, tb, sd>>
    /\ UNCHANGED reads

\* What fs::read_to_string(f).await can return: Ok(text) or Err.
ReadOk(text) == [ok |-> TRUE, text |-> text]
ReadErr == [ok |-> FALSE, text |-> <<>>]
ReadResults ==
    {ReadOk(c) : c \in FileContents} \cup (IF inputs = "files" THEN {ReadErr} ELSE {})

\* Result::unwrap_or_default on a read: the text, or the empty string for Err.
unwrap_or_default(r) == IF r.ok THEN r.text ELSE <<>>

\* The read loop leaving out the files that could not be read.
ReadSnippets_SkipUnreadable(rs) ==
    [f \in {g \in DOMAIN rs : rs[g].ok} |->
        generate_single_file_snippet(f, unwrap_or_default(rs[f]), 0)]

\* The read loop of add_files_snippet / full_refresh, outside the lock: one
\* snippet per file of the batch, from its text or from the empty string when the
\* read failed.
ReadSnippets(rs) ==
    [f \in DOMAIN rs |-> generate_single_file_snippet(f, unwrap_or_default(rs[f]), 0)]

\* SnippetManager::add_files_snippet, step 1.
add_files_snippet_read ==
    /\ pc = "afs_read" /\ ~locked
    /\ \E rs \in [scanned -> ReadResults] :
         reads' = rs /\ new_snips' = ReadSnippets(rs)
    /\ pc' = "afs_insert"
    /\ UNCHANGED <<app, running, locked, sig, cmd, current_mode, scanned, tree_snippet,
                   num_changed, xml_to_copy, result, notice, clip, pre>>
    /\ UNCHANGED <<bpe_loads, inputs, appended, tb, sd>>

\* SnippetManager::add_files_snippet, step 2.
add_files_snippet_insert ==
    /\ InScope("afs_insert")
    /\ partial_docs' = InsertAll(partial_docs, new_snips)
    /\ pc' = "tree_gen"
    /\ UNCHANGED <<selected_paths, file_count, token_count, cached_xml, mode, prompt_text,
                   editor_mode, running, sig, cmd, locals, result, notice, clip, pre>>
    /\ UNCHANGED <<bpe_loads, inputs, appended, tb, sd>>
    /\ UNCHANGED reads

\* The tree snippet as generate_project_tree_string renders it now.
TreeSnippets ==
    {generate_single_file_snippet(PROJECT_TREE_VIRTUAL_PATH, t, 0) : t \in TreeTextsNow}

TreeEntry(snip) == [k \in {PROJECT_TREE_VIRTUAL_PATH} |-> snip]

\* SnippetManager::update_project_tree_snippet: the tree is rendered.
update_project_tree_gen ==
    /\ pc = "tree_gen" /\ ~locked
    /\ \E snip \in TreeSnippets : tree_snippet' = <<snip>>
    /\ pc' = "tree_insert"
    /\ UNCHANGED <<app, running, locked, sig, cmd, current_mode, scanned, new_snips,
                   num_changed, xml_to_copy, result, notice, clip, pre>>
    /\ UNCHANGED <<bpe_loads, inputs, appended, tb, sd>>
    /\ UNCHANGED reads

\* SnippetManager::update_project_tree_snippet: the snippet is stored.
update_project_tree_insert ==
    /\ InScope("tree_insert")
    /\ partial_docs' = InsertAll(partial_docs, TreeEntry(tree_snippet[1]))
    /\ pc' = "rebuild"
    /\ UNCHANGED <<selected_paths, file_count, token_count, cached_xml, mode, prompt_text,
                   editor_mode, running, sig, cmd, locals, result, notice, clip, pre>>
    /\ UNCHANGED <<bpe_loads, inputs, appended, tb, sd>>
    /\ UNCHANGED reads

\* rebuild_and_recalc counting the tokens of the text it is about to replace.
rebuild_and_recalc_StaleCount ==
    /\ InScope("rebuild")
    /\ bpe_loads
    /\ \E order \in Orders(DOMAIN partial_docs) :
         LET merged == merge_all_snippets(partial_docs, order)
             tokens == calculate_tokens_in_string(cached_xml)
         IN /\ cached_xml' = merged
            /\ token_count' = tokens
    /\ IF cmd.kind = "Copy" THEN pc' = "copy_instr" /\ result' = result ELSE Return("ok")
    /\ UNCHANGED <<selected_paths, file_count, partial_docs, mode, prompt_text, editor_mode,
                   running, sig, cmd, locals, notice, clip, pre>>
    /\ UNCHANGED <<bpe_loads, inputs, appended, tb, sd>>
    /\ UNCHANGED reads

\* rebuild_and_recalc leaving a stored document in place during a copy instead of
\* merging the cache again.
rebuild_and_recalc_KeepsDocument ==
    /\ InScope("rebuild")
    /\ bpe_loads
    /\ \E order \in Orders(DOMAIN partial_docs) :
         LET merged == IF cmd.kind = "Copy" /\ cached_xml # <<>> THEN cached_xml
                       ELSE merge_all_snippets(partial_docs, order)
             tokens == calculate_tokens_in_string(merged)
         IN /\ cached_xml' = merged
            /\ token_count' = tokens
    /\ IF cmd.kind = "Copy" THEN pc' = "copy_instr" /\ result' = result ELSE Return("ok")
    /\ UNCHANGED <<selected_paths, file_count, partial_docs, mode, prompt_text, editor_mode,
                   running, sig, cmd, locals, notice, clip, pre>>
    /\ UNCHANGED <<bpe_loads, inputs, appended, tb, sd>>
    /\ UNCHANGED reads

\* SnippetManager::rebuild_and_recalc: the merged text and its token count are
\* stored together. Copy goes on to its instruction step; add and remove return.
rebuild_and_recalc ==
    /\ InScope("rebuild")
    /\ bpe_loads
    /\ \E order \in Orders(DOMAIN partial_docs) :
         LET merged == merge_all_snippets(partial_docs, order)
             tokens == calculate_tokens_in_string(merged)
         IN /\ cached_xml' = merged
            /\ token_count' = tokens
    /\ IF cmd.kind = "Copy" THEN pc' = "copy_instr" /\ result' = result ELSE Return("ok")
    /\ UNCHANGED <<selected_paths, file_count, partial_docs, mode, prompt_text, editor_mode,
                   running, sig, cmd, locals, notice, clip, pre>>
    /\ UNCHANGED <<bpe_loads, inputs, appended, tb, sd>>
    /\ UNCHANGED reads

\* rebuild_and_recalc returning the tokenizer's error with the guard still alive.
rebuild_and_recalc_err_KeepsLock ==
    /\ pc = "rebuild" /\ locked
    /\ ~bpe_loads
    /\ Return("err")
    /\ UNCHANGED <<app, running, locked, sig, cmd, locals, notice, clip, pre>>
    /\ UNCHANGED <<bpe_loads, inputs, appended, tb, sd>>
    /\ UNCHANGED reads

\* SnippetManager::rebuild_and_recalc when calculate_tokens_in_string fails (the
\* encoder does not load): `?` returns before either field is written, and the
\* error leaves execute.
rebuild_and_recalc_err ==
    /\ InScope("rebuild")
    /\ ~bpe_loads
    /\ Return("err")
    /\ UNCHANGED <<app, running, sig, cmd, locals, notice, clip, pre>>
    /\ UNCHANGED <<bpe_loads, inputs, appended, tb, sd>>
    /\ UNCHANGED reads

\* Command::Remove without `st.partial_docs.remove(f)`.
RemoveSelect_KeepsSnippet ==
    /\ InScope("rm_select")
    /\ LET init_count == Cardinality(selected_paths)
           final_count == Cardinality(selected_paths \ scanned)
           num_removed == init_count - final_count
       IN /\ selected_paths' = selected_paths \ scanned
          /\ partial_docs' = partial_docs
          /\ file_count' = final_count
          /\ num_changed' = num_removed
          /\ IF num_removed > 0
             THEN pc' = "tree_gen" /\ result' = result
             ELSE Return("ok")
    /\ UNCHANGED <<token_count, cached_xml, mode, prompt_text, editor_mode,
                   running, sig, cmd, current_mode, scanned, new_snips, tree_snippet,
                   xml_to_copy, notice, clip, pre>>
    /\ UNCHANGED <<bpe_loads, inputs, appended, tb, sd>>
    /\ UNCHANGED reads

\* Command::Remove, the scope that shrinks selected_paths and partial_docs.
RemoveSelect ==
    /\ InScope("rm_select")
    /\ LET init_count == Cardinality(selected_paths)
           final_count == Cardinality(selected_paths \ scanned)
           num_removed == init_count - final_count
       IN /\ selected_paths' = selected_paths \ scanned
          /\ partial_docs' = RemoveAll(partial_docs, scanned)
          /\ file_count' = final_count
          /\ num_changed' = num_removed
          /\ IF num_removed > 0
             THEN pc' = "tree_gen" /\ result' = result
             ELSE Return("ok")
    /\ UNCHANGED <<token_count, cached_xml, mode, prompt_text, editor_mode,
                   running, sig, cmd, current_mode, scanned, new_snips, tree_snippet,
                   xml_to_copy, notice, clip, pre>>
    /\ UNCHANGED <<bpe_loads, inputs, appended, tb, sd>>
    /\ UNCHANGED reads

\* Command::ShowContext: the counts and the selection are printed under the lock.
ShowContext ==
    /\ InScope("ctx")
    /\ Return("ok")
    /\ UNCHANGED <<app, running, sig, cmd, locals, notice, clip, pre>>
    /\ UNCHANGED <<bpe_loads, inputs, appended, tb, sd>>
    /\ UNCHANGED reads

\* Command::Copy, first scope: the selected paths are collected.
CopyPaths ==
    /\ InScope("copy_paths")
    /\ scanned' = selected_paths
    /\ pc' = "fr_clear"
    /\ UNCHANGED <<app, running, sig, cmd, current_mode, new_snips, tree_snippet,
                   num_changed, xml_to_copy, result, notice, clip, pre>>
    /\ UNCHANGED <<bpe_loads, inputs, appended, tb, sd>>
    /\ UNCHANGED reads

\* full_refresh, step 1, keeping the mutex for the reads that follow.
full_refresh_clear_HoldsLock ==
    /\ pc = "fr_clear" /\ locked
    /\ partial_docs' = EmptyMap
    /\ pc' = "fr_read"
    /\ UNCHANGED <<selected_paths, file_count, token_count, cached_xml, mode, prompt_text,
                   editor_mode, running, locked, sig, cmd, locals, result, notice, clip, pre>>
    /\ UNCHANGED <<bpe_loads, inputs, appended, tb, sd>>
    /\ UNCHANGED reads

\* SnippetManager::full_refresh, step 1: the cache is emptied.
full_refresh_clear ==
    /\ InScope("fr_clear")
    /\ partial_docs' = EmptyMap
    /\ pc' = "fr_read"
    /\ UNCHANGED <<selected_paths, file_count, token_count, cached_xml, mode, prompt_text,
                   editor_mode, running, sig, cmd, locals, result, notice, clip, pre>>
    /\ UNCHANGED <<bpe_loads, inputs, appended, tb, sd>>
    /\ UNCHANGED reads

\* SnippetManager::full_refresh, step 2: the files are read outside the lock.
full_refresh_read ==
    /\ pc = "fr_read" /\ ~locked
    /\ \E rs \in [scanned -> ReadResults] :
         reads' = rs /\ new_snips' = ReadSnippets(rs)
    /\ pc' = "fr_tree"
    /\ UNCHANGED <<app, running, locked, sig, cmd, current_mode, scanned, tree_snippet,
                   num_changed, xml_to_copy, result, notice, clip, pre>>
    /\ UNCHANGED <<bpe_loads, inputs, appended, tb, sd>>

\* SnippetManager::full_refresh, step 3: the tree is rendered outside the lock.
full_refresh_tree ==
    /\ pc = "fr_tree" /\ ~locked
    /\ \E snip \in TreeSnippets : tree_snippet' = <<snip>>
    /\ pc' = "fr_insert"
    /\ UNCHANGED <<app, running, locked, sig, cmd, current_mode, scanned, new_snips,
                   num_changed, xml_to_copy, result, notice, clip, pre>>
    /\ UNCHANGED <<bpe_loads, inputs, appended, tb, sd>>
    /\ UNCHANGED reads

\* full_refresh, step 4, writing back the tree snippet only.
full_refresh_insert_TreeOnly ==
    /\ InScope("fr_insert")
    /\ partial_docs' = InsertAll(partial_docs, TreeEntry(tree_snippet[1]))
    /\ pc' = "rebuild"
    /\ UNCHANGED <<selected_paths, file_count, token_count, cached_xml, mode, prompt_text,
                   editor_mode, running, sig, cmd, locals, result, notice, clip, pre>>
    /\ UNCHANGED <<bpe_loads, inputs, appended, tb, sd>>
    /\ UNCHANGED reads

\* full_refresh, step 4, without writing the tree snippet back.
full_refresh_insert_NoTree ==
    /\ InScope("fr_insert")
    /\ partial_docs' = InsertAll(partial_docs, new_snips)
    /\ pc' = "rebuild"
    /\ UNCHANGED <<selected_paths, file_count, token_count, cached_xml, mode, prompt_text,
                   editor_mode, running, sig, cmd, locals, result, notice, clip, pre>>
    /\ UNCHANGED <<bpe_loads, inputs, appended, tb, sd>>
    /\ UNCHANGED reads

\* SnippetManager::full_refresh, step 4: all snippets and the tree are stored.
full_refresh_insert ==
    /\ InScope("fr_insert")
    /\ partial_docs' = InsertAll(InsertAll(partial_docs, new_snips), TreeEntry(tree_snippet[1]))
    /\ pc' = "rebuild"
    /\ UNCHANGED <<selected_paths, file_count, token_count, cached_xml, mode, prompt_text,
                   editor_mode, running, sig, cmd, locals, result, notice, clip, pre>>
    /\ UNCHANGED <<bpe_loads, inputs, appended, tb, sd>>
    /\ UNCHANGED reads

\* Command::Copy pushing the <instruction> element at the end of the text, after
\* the closing root tag.
CopyInstruction_AfterRoot ==
    /\ InScope("copy_instr")
    /\ LET instruction_tag == InstructionTag(prompt_text)
           final_xml == IF prompt_text = <<>> THEN cached_xml
                        ELSE cached_xml \o <<instruction_tag>>
       IN /\ cached_xml' = final_xml
          /\ xml_to_copy' = final_xml
    /\ pc' = "copy_clip"
    /\ UNCHANGED <<selected_paths, file_count, token_count, partial_docs, mode, prompt_text,
                   editor_mode, running, sig, cmd, current_mode, scanned, new_snips,
                   tree_snippet, num_changed, result, notice, clip, pre>>
    /\ UNCHANGED <<bpe_loads, inputs, appended, tb, sd>>
    /\ UNCHANGED reads

\* Command::Copy handing the text to the clipboard as it is before the
\* <instruction> element is put in.
CopyInstruction_ClipboardFirst ==
    /\ InScope("copy_instr")
    /\ LET instruction_tag == InstructionTag(prompt_text)
           idx == rfind_close(cached_xml)
           final_xml == IF prompt_text = <<>> THEN cached_xml
                        ELSE IF idx > 0 THEN insert_at(cached_xml, idx, instruction_tag)
                        ELSE cached_xml \o <<instruction_tag, CloseTag>>
       IN /\ cached_xml' = final_xml
          /\ xml_to_copy' = cached_xml
    /\ pc' = "copy_clip"
    /\ UNCHANGED <<selected_paths, file_count, token_count, partial_docs, mode, prompt_text,
                   editor_mode, running, sig, cmd, current_mode, scanned, new_snips,
                   tree_snippet, num_changed, result, notice, clip, pre>>
    /\ UNCHANGED <<bpe_loads, inputs, appended, tb, sd>>
    /\ UNCHANGED reads

\* Command::Copy after full_refresh: a non-empty prompt_text is put, as an
\* <instruction> element, before the closing root tag, and the result is stored in
\* cached_xml.
CopyInstruction ==
    /\ InScope("copy_instr")
    /\ LET instruction_tag == InstructionTag(prompt_text)
           idx == rfind_close(cached_xml)
           final_xml == IF prompt_text = <<>> THEN cached_xml
                        ELSE IF idx > 0 THEN insert_at(cached_xml, idx, instruction_tag)
                        ELSE cached_xml \o <<instruction_tag, CloseTag>>
       IN /\ cached_xml' = final_xml
          /\ xml_to_copy' = final_xml
    /\ pc' = "copy_clip"
    /\ UNCHANGED <<selected_paths, file_count, token_count, partial_docs, mode, prompt_text,
                   editor_mode, running, sig, cmd, current_mode, scanned, new_snips,
                   tree_snippet, num_changed, result, notice, clip, pre>>
    /\ UNCHANGED <<bpe_loads, inputs, appended, tb, sd>>
    /\ UNCHANGED reads

\* Command::Copy treating a failed clipboard write as a failure of the command:
\* the document and the count go back to what they were and the error is returned.
CopyClipboard_FailureUndoes ==
    /\ pc = "copy_clip" /\ ~locked
    /\ \E outcome \in {"written", "failed"} :
         /\ clip' = outcome
         /\ IF outcome = "failed"
            THEN /\ cached_xml' = pre[1].cached_xml /\ token_count' = pre[1].token_count
                 /\ Return("err")
            ELSE /\ UNCHANGED <<cached_xml, token_count>>
                 /\ Return("ok")
    /\ UNCHANGED <<selected_paths, file_count, partial_docs, mode, prompt_text, editor_mode,
                   running, locked, sig, cmd, locals, notice, pre>>
    /\ UNCHANGED <<bpe_loads, inputs, appended, tb, sd>>
    /\ UNCHANGED reads

\* clipboard::copy_to_clipboard: it succeeds or fails; either way execute returns Ok.
CopyClipboard ==
    /\ pc = "copy_clip" /\ ~locked
    /\ \E outcome \in {"written", "failed"} : clip' = outcome
    /\ Return("ok")
    /\ UNCHANGED <<app, running, locked, sig, cmd, locals, notice, pre>>
    /\ UNCHANGED <<bpe_loads, inputs, appended, tb, sd>>
    /\ UNCHANGED reads

\* Command::Reset without `st.prompt_text.clear()`.
Reset_KeepsPrompt ==
    /\ InScope("reset")
    /\ selected_paths' = {}
    /\ file_count' = 0
    /\ token_count' = 0
    /\ partial_docs' = EmptyMap
    /\ cached_xml' = <<>>
    /\ prompt_text' = prompt_text
    /\ Return("ok")
    /\ UNCHANGED <<mode, editor_mode, running, sig, cmd, locals, notice, clip, pre>>
    /\ appended' = IF prompt_text' = prompt_text THEN appended ELSE <<>>
    /\ UNCHANGED <<bpe_loads, inputs, tb, sd>>
    /\ UNCHANGED reads

\* Command::Reset without `st.file_count = 0`.
Reset_KeepsCount ==
    /\ InScope("reset")
    /\ selected_paths' = {}
    /\ file_count' = file_count
    /\ token_count' = 0
    /\ partial_docs' = EmptyMap
    /\ cached_xml' = <<>>
    /\ prompt_text' = <<>>
    /\ Return("ok")
    /\ UNCHANGED <<mode, editor_mode, running, sig, cmd, locals, notice, clip, pre>>
    /\ appended' = <<>>
    /\ UNCHANGED <<bpe_loads, inputs, tb, sd>>
    /\ UNCHANGED reads

\* Command::Reset
Reset ==
    /\ InScope("reset")
    /\ selected_paths' = {}
    /\ file_count' = 0
    /\ token_count' = 0
    /\ partial_docs' = EmptyMap
    /\ cached_xml' = <<>>
    /\ prompt_text' = <<>>
    /\ Return("ok")
    /\ UNCHANGED <<mode, editor_mode, running, sig, cmd, locals, notice, clip, pre>>
    /\ appended' = <<>>
    /\ UNCHANGED <<bpe_loads, inputs, tb, sd>>
    /\ UNCHANGED reads

\* Command::Help: the mode is read, the lock dropped, the list printed.
Help ==
    /\ InScope("help")
    /\ Return("ok")
    /\ UNCHANGED <<app, running, sig, cmd, locals, notice, clip, pre>>
    /\ UNCHANGED <<bpe_loads, inputs, appended, tb, sd>>
    /\ UNCHANGED reads

\* Command::Quit
Quit ==
    /\ pc = "quit" /\ ~locked
    /\ Return("ok")
    /\ UNCHANGED <<app, running, locked, sig, cmd, locals, notice, clip, pre>>
    /\ UNCHANGED <<bpe_loads, inputs, appended, tb, sd>>
    /\ UNCHANGED reads

\* Command::Mode taking every name other than "prompt" for manual.
Mode_OtherNameIsManual ==
    /\ InScope("mode_cmd")
    /\ IF cmd.arg = <<>>
       THEN mode' = mode /\ notice' = "current_mode"
       ELSE LET mode_str == to_lowercase(cmd.arg[1])
            IN IF mode_str = "prompt" THEN mode' = "Prompt" /\ notice' = "switched"
               ELSE mode' = "Manual" /\ notice' = "switched"
    /\ Return("ok")
    /\ UNCHANGED <<selected_paths, file_count, token_count, partial_docs, cached_xml,
                   prompt_text, editor_mode, running, sig, cmd, locals, clip, pre>>
    /\ UNCHANGED <<bpe_loads, inputs, appended, tb, sd>>
    /\ UNCHANGED reads

\* Command::Mode comparing the name without to_lowercase.
Mode_CaseSensitive ==
    /\ InScope("mode_cmd")
    /\ IF cmd.arg = <<>>
       THEN mode' = mode /\ notice' = "current_mode"
       ELSE LET mode_str == cmd.arg[1]
            IN IF mode_str = "manual" THEN mode' = "Manual" /\ notice' = "switched"
               ELSE IF mode_str = "prompt" THEN mode' = "Prompt" /\ notice' = "switched"
               ELSE mode' = mode /\ notice' = "unknown_mode"
    /\ Return("ok")
    /\ UNCHANGED <<selected_paths, file_count, token_count, partial_docs, cached_xml,
                   prompt_text, editor_mode, running, sig, cmd, locals, clip, pre>>
    /\ UNCHANGED <<bpe_loads, inputs, appended, tb, sd>>
    /\ UNCHANGED reads

\* Command::Mode dropping the pending instruction when it switches to manual.
Mode_ManualClearsPrompt ==
    /\ InScope("mode_cmd")
    /\ IF cmd.arg = <<>>
       THEN mode' = mode /\ notice' = "current_mode" /\ prompt_text' = prompt_text
       ELSE LET mode_str == to_lowercase(cmd.arg[1])
            IN IF mode_str = "manual"
               THEN mode' = "Manual" /\ notice' = "switched" /\ prompt_text' = <<>>
               ELSE IF mode_str = "prompt"
               THEN mode' = "Prompt" /\ notice' = "switched" /\ prompt_text' = prompt_text
               ELSE mode' = mode /\ notice' = "unknown_mode" /\ prompt_text' = prompt_text
    /\ Return("ok")
    /\ UNCHANGED <<selected_paths, file_count, token_count, partial_docs, cached_xml,
                   editor_mode, running, sig, cmd, locals, clip, pre>>
    /\ UNCHANGED <<bpe_loads, inputs, appended, tb, sd>>
    /\ UNCHANGED reads

\* Command::Mode
Mode ==
    /\ InScope("mode_cmd")
    /\ IF cmd.arg = <<>>
       THEN mode' = mode /\ notice' = "current_mode"
       ELSE LET mode_str == to_lowercase(cmd.arg[1])
            IN IF mode_str = "manual" THEN mode' = "Manual" /\ notice' = "switched"
               ELSE IF mode_str = "prompt" THEN mode' = "Prompt" /\ notice' = "switched"
               ELSE mode' = mode /\ notice' = "unknown_mode"
    /\ Return("ok")
    /\ UNCHANGED <<selected_paths, file_count, token_count, partial_docs, cached_xml,
                   prompt_text, editor_mode, running, sig, cmd, locals, clip, pre>>
    /\ UNCHANGED <<bpe_loads, inputs, appended, tb, sd>>
    /\ UNCHANGED reads

\* Command::Prompt without the automatic switch to Prompt mode.
PromptSwitch_NoSwitch ==
    /\ InScope("prompt_switch")
    /\ mode' = mode /\ notice' = notice
    /\ pc' = "enter_ml"
    /\ UNCHANGED <<selected_paths, file_count, token_count, partial_docs, cached_xml,
                   prompt_text, editor_mode, running, sig, cmd, locals, result, clip, pre>>
    /\ UNCHANGED <<bpe_loads, inputs, appended, tb, sd>>
    /\ UNCHANGED reads

\* Command::Prompt, the scope that switches a Manual session to Prompt; the
\* multi-line editor is entered next.
PromptSwitch ==
    /\ InScope("prompt_switch")
    /\ IF mode = "Manual"
       THEN mode' = "Prompt" /\ notice' = "auto_switch"
       ELSE mode' = mode /\ notice' = notice
    /\ pc' = "enter_ml"
    /\ UNCHANGED <<selected_paths, file_count, token_count, partial_docs, cached_xml,
                   prompt_text, editor_mode, running, sig, cmd, locals, result, clip, pre>>
    /\ UNCHANGED <<bpe_loads, inputs, appended, tb, sd>>
    /\ UNCHANGED reads

\* Command::ResetPrompt
ResetPrompt ==
    /\ InScope("resetprompt")
    /\ prompt_text' = <<>>
    /\ Return("ok")
    /\ UNCHANGED <<selected_paths, file_count, token_count, partial_docs, cached_xml,
                   mode, editor_mode, running, sig, cmd, locals, notice, clip, pre>>
    /\ appended' = <<>>
    /\ UNCHANGED <<bpe_loads, inputs, tb, sd>>
    /\ UNCHANGED reads

\* Command::AppendPromptText pushing the newline whether or not prompt_text is empty.
AppendPromptText_AlwaysSeparator ==
    /\ InScope("append")
    /\ IF mode = "Prompt"
       THEN /\ prompt_text' = prompt_text \o <<NL>> \o cmd.arg
            /\ notice' = "added"
       ELSE /\ prompt_text' = prompt_text
            /\ notice' = "internal_error"
    /\ Return("ok")
    /\ UNCHANGED <<selected_paths, file_count, token_count, partial_docs, cached_xml,
                   mode, editor_mode, running, sig, cmd, locals, clip, pre>>
    /\ appended' = IF mode = "Prompt" /\ (prompt_text = <<>> \/ appended # <<>>)
                    THEN Append(appended, cmd.arg)
                    ELSE appended
    /\ UNCHANGED <<bpe_loads, inputs, tb, sd>>
    /\ UNCHANGED reads

\* Command::AppendPromptText
AppendPromptText ==
    /\ InScope("append")
    /\ IF mode = "Prompt"
       THEN /\ prompt_text' = IF prompt_text # <<>>
                              THEN prompt_text \o <<NL>> \o cmd.arg
                              ELSE cmd.arg
            /\ notice' = "added"
       ELSE /\ prompt_text' = prompt_text
            /\ notice' = "internal_error"
    /\ Return("ok")
    /\ UNCHANGED <<selected_paths, file_count, token_count, partial_docs, cached_xml,
                   mode, editor_mode, running, sig, cmd, locals, clip, pre>>
    /\ appended' = IF mode = "Prompt" /\ (prompt_text = <<>> \/ appended # <<>>)
                    THEN Append(appended, cmd.arg)
                    ELSE appended
    /\ UNCHANGED <<bpe_loads, inputs, tb, sd>>
    /\ UNCHANGED reads

\* ------------------------------------------------------------ tree renderer
\* core::tree_builder::generate_project_tree_string on a directory tree.  An entry
\* is its path below the root, a sequence of names; names are numbers, ordered as
\* the file names are.  The root holds the directories 1..n, directory d holds the
\* files 1..kids[d].
MaxDirs == 2
MaxKids == 2

TreeShapes == UNION {{[n |-> n, kids |-> k] : k \in [1..n -> 0..MaxKids]} : n \in 0..MaxDirs}
Entries(shape) ==
    {<<d>> : d \in 1..shape.n}
    \cup UNION {{<<d, k>> : k \in 1..shape.kids[d]} : d \in 1..shape.n}

\* Path::parent and the number of components below the root.
Parent(p) == SubSeq(p, 1, Len(p) - 1)
Depth(p) == Len(p)

\* Ord for PathBuf: component by component.
RECURSIVE PathLeq(_, _)
PathLeq(p, q) ==
    IF p = <<>> THEN TRUE
    ELSE IF q = <<>> THEN FALSE
    ELSE IF Head(p) # Head(q) THEN Head(p) < Head(q)
    ELSE PathLeq(Tail(p), Tail(q))

\* Vec<PathBuf>::sort
RECURSIVE InsertPath(_, _)
InsertPath(p, s) ==
    IF s = <<>> THEN <<p>>
    ELSE IF PathLeq(p, Head(s)) THEN <<p>> \o s
    ELSE <<Head(s)>> \o InsertPath(p, Tail(s))
RECURSIVE SortChildren(_)
SortChildren(s) == IF s = <<>> THEN <<>> ELSE InsertPath(Head(s), SortChildren(Tail(s)))

\* The order in which the walker yields the entries: depth first, a directory
\* before its content, the entries of one directory in the order the file system
\* lists them (ascending or descending by name here).
Listing(k, desc) == [i \in 1..k |-> IF desc THEN k + 1 - i ELSE i]
RECURSIVE Flatten(_)
Flatten(ss) == IF ss = <<>> THEN <<>> ELSE Head(ss) \o Flatten(Tail(ss))
Walk(shape, desc) ==
    LET dirs == Listing(shape.n, desc)
        Below(d) == LET ks == Listing(shape.kids[d], desc)
                    IN <<<<d>>>> \o [i \in 1..Len(ks) |-> <<d, ks[i]>>]
    IN Flatten([i \in 1..Len(dirs) |-> Below(dirs[i])])

CORNER == "corner"
TEE == "tee"
BLANK == "blank"
BAR == "bar"
Line(path, prefix, branch) == [path |-> path, prefix |-> prefix, branch |-> branch]
\* The first line: the root name, without prefix or branch marker.
RootLine == Line(<<>>, <<>>, "root")

\* The call begins: lines holds the root name, the maps are empty.
TreeStart(shape, desc) ==
    [stage |-> "collect", entries |-> Entries(shape), walk |-> Walk(shape, desc),
     dir_children |-> EmptyMap, pending |-> {}, last_entry_at_depth |-> EmptyMap,
     next |-> 1, lines |-> <<RootLine>>]

\* The first walk: every entry below the root is pushed to its parent's list.
tree_collect ==
    /\ tb.stage = "collect"
    /\ LET parents == {Parent(p) : p \in tb.entries}
           ChildrenOf(par) == LET IsChild(p) == Parent(p) = par
                              IN SelectSeq(tb.walk, IsChild)
       IN tb' = [tb EXCEPT !.stage = "sort",
                           !.dir_children = [par \in parents |-> ChildrenOf(par)],
                           !.pending = parents]
    /\ UNCHANGED <<app, running, locked, pc, sig, cmd, locals, result, notice, clip, pre,
                   bpe_loads, inputs, appended, reads, sd>>

\* One turn of `for (parent_path, children) in dir_children.iter_mut()`, which
\* visits the parents in the HashMap's order: the children are sorted and the
\* last one is stored under the depth of the children.
tree_sort ==
    /\ tb.stage = "sort"
    /\ \E parent_path \in tb.pending :
         LET children == SortChildren(tb.dir_children[parent_path])
             last_child == children[Len(children)]
             parent_depth == Depth(parent_path)
             rest == tb.pending \ {parent_path}
         IN tb' = [tb EXCEPT
                     !.dir_children = [tb.dir_children EXCEPT ![parent_path] = children],
                     !.last_entry_at_depth =
                         InsertAll(tb.last_entry_at_depth,
                                   [d \in {parent_depth + 1} |-> last_child]),
                     !.pending = rest]
    /\ UNCHANGED <<app, running, locked, pc, sig, cmd, locals, result, notice, clip, pre,
                   bpe_loads, inputs, appended, reads, sd>>

\* The sort loop is over: the second walk begins.
tree_sorted ==
    /\ tb.stage = "sort" /\ tb.pending = {}
    /\ tb' = [tb EXCEPT !.stage = "build"]
    /\ UNCHANGED <<app, running, locked, pc, sig, cmd, locals, result, notice, clip, pre,
                   bpe_loads, inputs, appended, reads, sd>>

\* HashMap::get(&depth).map_or(false, |last| last == path)
IsLastAtDepth(last_entry, depth, path) ==
    depth \in DOMAIN last_entry /\ last_entry[depth] = path

\* The line of one entry in the second walk: one prefix piece per ancestor below
\* the root, then the branch marker.
EntryLine(path, last_entry) ==
    LET depth == Depth(path)
        Piece(i) ==
            LET ancestor_at_i == SubSeq(path, 1, i)
                parent_of_ancestor_at_i == Parent(ancestor_at_i)
                parent_depth == Depth(parent_of_ancestor_at_i)
                is_ancestor_last == IsLastAtDepth(last_entry, parent_depth + 1, ancestor_at_i)
            IN IF is_ancestor_last THEN BLANK ELSE BAR
        prefix == [i \in 1..(depth - 1) |-> Piece(i)]
        is_last == IsLastAtDepth(last_entry, depth, path)
        branch == IF is_last THEN CORNER ELSE TEE
    IN Line(path, prefix, branch)

\* One turn of the second walk: the line of one entry is pushed.
tree_line ==
    /\ tb.stage = "build" /\ tb.next <= Len(tb.walk)
    /\ LET path == tb.walk[tb.next]
       IN tb' = [tb EXCEPT !.lines = Append(tb.lines, EntryLine(path, tb.last_entry_at_depth)),
                           !.next = tb.next + 1]
    /\ UNCHANGED <<app, running, locked, pc, sig, cmd, locals, result, notice, clip, pre,
                   bpe_loads, inputs, appended, reads, sd>>

\* The walk is over: Ok(lines.join("\n")).
tree_join ==
    /\ tb.stage = "build" /\ tb.next > Len(tb.walk)
    /\ tb' = [tb EXCEPT !.stage = "done"]
    /\ UNCHANGED <<app, running, locked, pc, sig, cmd, locals, result, notice, clip, pre,
                   bpe_loads, inputs, appended, reads, sd>>

\* The whole call as a function of the order in which dir_children.iter_mut()
\* yields the parents: the sort loop run over `order`, starting from `last_entry`.
RECURSIVE LastEntryAfter(_, _, _)
LastEntryAfter(order, dir_children, last_entry) ==
    IF order = <<>> THEN last_entry
    ELSE LET parent_path == Head(order)
             children == SortChildren(dir_children[parent_path])
             last_child == children[Len(children)]
             parent_depth == Depth(parent_path)
         IN LastEntryAfter(Tail(order), dir_children,
                           InsertAll(last_entry, [d \in {parent_depth + 1} |-> last_child]))

\* The lines the second walk pushes when the sort loop has visited the parents in
\* the order `order`.
Render(walk, dir_children, order) ==
    LET last_entry == LastEntryAfter(order, dir_children, EmptyMap)
    IN <<RootLine>> \o [i \in 1..Len(walk) |-> EntryLine(walk[i], last_entry)]

\* A call of generate_project_tree_string on any of the trees, taken alone.
InitTree ==
    /\ Constructed /\ bpe_loads /\ inputs = "files" /\ sd = NoScan
    /\ \E shape \in TreeShapes, desc \in BOOLEAN : tb = TreeStart(shape, desc)
NextTree == tree_collect \/ tree_sort \/ tree_sorted \/ tree_line \/ tree_join
SpecTree == InitTree /\ [][NextTree]_vars

\* ---------------------------------------------------------- path enumerator
\* core::files_scanner::scan_dir and IgnoreConfig on a file system below the
\* root.  An entry is its path below the root, a sequence of names; the root is
\* <<>>.  The root's .gitignore names "out.log" and "target".
MaxTop == 2

TopFileNames == {"a.rs", ".env", "out.log"}
DirNames == {"src", ".git", "target", "node_modules"}
CHILD == "m.rs"
GitIgnoredNames == {"out.log", "target"}
ROOT == <<>>
MISSING == <<"gone">>

\* The file systems: the root holds at most MaxTop entries, a directory holds
\* nothing or the file CHILD.
FileSystems ==
    UNION {{[files |-> {<<n>> : n \in top \cap TopFileNames} \cup {<<d, CHILD>> : d \in full},
             dirs |-> {<<d>> : d \in top \cap DirNames}] :
               full \in SUBSET (top \cap DirNames)} :
           top \in {S \in SUBSET (TopFileNames \cup DirNames) : Cardinality(S) <= MaxTop}}

\* name.to_string_lossy().starts_with(".")
starts_with_dot(name) == name \in {".env", ".git"}

\* IgnoreConfig::should_ignore_path with the default configuration: the file name
\* is hidden, or a component is node_modules; .gitignore is not consulted.
should_ignore_path(path) ==
    \/ path # <<>> /\ starts_with_dot(path[Len(path)])
    \/ \E i \in 1..Len(path) : path[i] = "node_modules"

\* Whether the walker IgnoreConfig::build_walker configures leaves out an entry
\* of this name (and, for a directory, everything below it): hidden(true),
\* git_ignore(true), add_ignore("node_modules").  skips_nm says whether the
\* add_ignore call makes the walker leave out node_modules; that depends on how
\* WalkBuilder takes the argument, which these sources do not settle.
WalkerSkips(name, skips_nm) ==
    \/ starts_with_dot(name)
    \/ name \in GitIgnoredNames
    \/ skips_nm /\ name = "node_modules"

\* The entries build_walker(from).build() yields: `from` itself (depth 0, never
\* filtered) and every entry below it that is reached without passing through an
\* entry the walker leaves out.
WalkerYields(fs, from, skips_nm) ==
    {from} \cup
    {p \in fs.files \cup fs.dirs :
        /\ Len(p) > Len(from) /\ SubSeq(p, 1, Len(from)) = from
        /\ \A i \in (Len(from) + 1)..Len(p) : ~WalkerSkips(p[i], skips_nm)}

\* The paths generate_project_tree_string pushes a line for: every entry the
\* walker from the root yields at depth > 0.
TreeLists(fs, skips_nm) == WalkerYields(fs, ROOT, skips_nm) \ {ROOT}

\* scan_dir is called with `path`.
ScanStart(fs, path, skips_nm) ==
    [stage |-> "called", fs |-> fs, path |-> path, skips_nm |-> skips_nm,
     pending |-> {}, files |-> {}]

ScanFrame ==
    UNCHANGED <<app, running, locked, pc, sig, cmd, locals, result, notice, clip, pre,
                bpe_loads, inputs, appended, reads, tb>>

\* `if !path.exists()`: Err.
scan_missing ==
    /\ sd.stage = "called"
    /\ sd.path \notin sd.fs.files \cup sd.fs.dirs \cup {ROOT}
    /\ sd' = [sd EXCEPT !.stage = "err"]
    /\ ScanFrame

\* `if path.is_file()`: the file alone, unless should_ignore_path says to ignore it.
scan_file ==
    /\ sd.stage = "called"
    /\ sd.path \in sd.fs.files
    /\ sd' = [sd EXCEPT !.stage = "done",
                        !.files = IF should_ignore_path(sd.path) THEN {} ELSE {sd.path}]
    /\ ScanFrame

\* A directory: the walker is built on it.
scan_walk ==
    /\ sd.stage = "called"
    /\ sd.path \in sd.fs.dirs \cup {ROOT}
    /\ sd' = [sd EXCEPT !.stage = "walk",
                        !.pending = WalkerYields(sd.fs, sd.path, sd.skips_nm)]
    /\ ScanFrame

\* One turn of `for entry in walker`: a file is pushed, anything else passed over.
scan_entry ==
    /\ sd.stage = "walk"
    /\ \E entry \in sd.pending :
         sd' = [sd EXCEPT !.pending = sd.pending \ {entry},
                          !.files = IF entry \in sd.fs.files THEN sd.files \cup {entry}
                                    ELSE sd.files]
    /\ ScanFrame

\* The walker yields an error for an entry: `?` returns it.
scan_entry_err ==
    /\ sd.stage = "walk" /\ sd.pending # {}
    /\ sd' = [sd EXCEPT !.stage = "err"]
    /\ ScanFrame

\* The walk is over: Ok(files).
scan_return ==
    /\ sd.stage = "walk" /\ sd.pending = {}
    /\ sd' = [sd EXCEPT !.stage = "done"]
    /\ ScanFrame

\* A call of scan_dir with any argument on any of the file systems, taken alone.
InitScan ==
    /\ Constructed /\ bpe_loads /\ inputs = "files" /\ tb = NoTree
    /\ \E fs \in FileSystems, skips_nm \in BOOLEAN :
         \E path \in fs.files \cup fs.dirs \cup {ROOT, MISSING} :
            sd = ScanStart(fs, path, skips_nm)
NextScan ==
    scan_missing \/ scan_file \/ scan_walk \/ scan_entry \/ scan_entry_err \/ scan_return
SpecScan == InitScan /\ [][NextScan]_vars

\* ------------------------------------------------------------ specification
Next ==
    \/ Acquire
    \/ ReadLine
    \/ ReadError
    \/ MultiLineCommit
    \/ exit_multiline_mode
    \/ enter_multiline_mode
    \/ enter_multiline_show
    \/ Done
    \/ ExecUnknown
    \/ ExecReject
    \/ ExecDispatch
    \/ scan_dir
    \/ scan_dir_err
    \/ AddSelect
    \/ add_files_snippet_read
    \/ add_files_snippet_insert
    \/ update_project_tree_gen
    \/ update_project_tree_insert
    \/ rebuild_and_recalc
    \/ rebuild_and_recalc_err
    \/ RemoveSelect
    \/ ShowContext
    \/ CopyPaths
    \/ full_refresh_clear
    \/ full_refresh_read
    \/ full_refresh_tree
    \/ full_refresh_insert
    \/ CopyInstruction
    \/ CopyClipboard
    \/ Reset
    \/ Help
    \/ Quit
    \/ Mode
    \/ PromptSwitch
    \/ ResetPrompt
    \/ AppendPromptText

Spec == Init /\ [][Next]_vars
SpecText == InitText /\ [][Next]_vars

\* run is the only task and nothing preempts it for ever: once read_line has
\* returned, the steps of the iteration are taken until the loop is back at
\* read_line. When read_line returns is up to the user.
Progress == Next /\ pc # "read"
SpecLive == InitLive /\ [][Next]_vars /\ WF_vars(Progress)

\* ================================================================== claims
\* A command is in progress (an input has been read and not yet finished).
InCommand == pre # <<>> /\ cmd # NoCmd
Pre == pre[1]

\* The command in progress is outside the allow-list of the mode it was issued in.
OutsideAllowList == cmd.kind = "Unknown" \/ ~is_command_valid_in_mode(cmd, Pre.mode)

\* rebuild_and_recalc has just committed: copy stands before its instruction step,
\* or an accepted add or remove has returned Ok after refreshing.
AddRefreshed == cmd.kind = "Add" /\ (num_changed > 0 \/ scanned = {})
RemoveRefreshed == cmd.kind = "Remove" /\ num_changed > 0
RebuildJustCommitted ==
    \/ pc = "copy_instr"
    \/ pc = "done" /\ result = "ok" /\ notice = "none" /\ (AddRefreshed \/ RemoveRefreshed)

\* The <document> elements of a text, in order.
Documents(text) == LET IsDoc(e) == e.tag = "document" IN SelectSeq(text, IsDoc)

\* C1: a command outside the active mode's allow-list (unknown commands included)
\* never leaves the dispatch scope for a command arm, leaves every field of
\* AppState equal to its value when the command was issued, and returns Ok.
C1_RejectedCommandChangesNothing ==
    (InCommand /\ OutsideAllowList)
    => /\ pc \in {"exec_mode", "done"}
       /\ AppRec = Pre
       /\ pc = "done" => result = "ok" /\ notice \in {"unknown_command", "not_available"}

C1_Witness ==
    /\ pc = "done" /\ cmd.kind = "Reset" /\ Pre.mode = "Prompt"
    /\ notice = "not_available" /\ result = "ok"
    /\ selected_paths # {} /\ prompt_text # <<>> /\ cached_xml # <<>>

\* C2: add, remove and reset are accepted in Manual mode and refused in Prompt
\* mode; in Prompt mode they change none of selected_paths, partial_docs,
\* cached_xml, token_count, prompt_text.
C2_SelectionCommandsOnlyInManual ==
    (InCommand /\ cmd.kind \in {"Add", "Remove", "Reset"})
    => /\ Pre.mode = "Prompt"
          => /\ pc \in {"exec_mode", "done"}
             /\ selected_paths = Pre.selected_paths
             /\ partial_docs = Pre.partial_docs
             /\ cached_xml = Pre.cached_xml
             /\ token_count = Pre.token_count
             /\ prompt_text = Pre.prompt_text
             /\ pc = "done" => notice = "not_available"
       /\ Pre.mode = "Manual" => (pc = "done" => notice = "none")

C2_Witness ==
    /\ pc = "done" /\ cmd.kind = "Remove" /\ Pre.mode = "Prompt"
    /\ notice = "not_available" /\ selected_paths # {}

\* C3 (as stated): /prompt issued in Manual mode is refused with a notice and
\* changes no field of AppState.
C3_PromptRefusedInManual ==
    (pc = "done" /\ cmd.kind = "Prompt" /\ Pre.mode = "Manual")
    => notice = "not_available" /\ AppRec = Pre

\* C3 (amended): /prompt is legal in both modes; issued in Manual mode it is
\* accepted, switches mode to Prompt with a notice, enters the multi-line editor
\* and changes no other field of AppState.
C3_PromptInManualSwitches ==
    (pc = "done" /\ cmd.kind = "Prompt" /\ Pre.mode = "Manual")
    => /\ result = "ok" /\ notice = "auto_switch"
       /\ mode = "Prompt" /\ editor_mode = "MultiLine"
       /\ AppRec = [Pre EXCEPT !.mode = "Prompt", !.editor_mode = "MultiLine"]

C3_Witness ==
    /\ pc = "done" /\ cmd.kind = "Prompt" /\ Pre.mode = "Manual"
    /\ selected_paths # {} /\ mode = "Prompt"

\* C4: after a rebuild the text holds one <document> per cache entry; the tree
\* entry, when present, is the first with index 1, and the real files carry the
\* indices 2..N, increasing with the path.
C4_RebuildNumbersByPath ==
    RebuildJustCommitted
    => LET docs == Documents(cached_xml)
           n == Len(docs)
           reals == {i \in 1..n : docs[i].source # PROJECT_TREE_VIRTUAL_PATH}
       IN /\ n = Cardinality(DOMAIN partial_docs)
          /\ {docs[i].source : i \in 1..n} = DOMAIN partial_docs
          /\ \A i \in 1..n :
                docs[i].source = PROJECT_TREE_VIRTUAL_PATH => i = 1 /\ docs[i].index = 1
          /\ {docs[i].index : i \in reals} = 2..(Cardinality(reals) + 1)
          /\ \A i, j \in reals :
                docs[i].source < docs[j].source => docs[i].index < docs[j].index
          /\ \A i, j \in 1..n : i < j => docs[i].index < docs[j].index

C4_Witness ==
    /\ RebuildJustCommitted
    /\ Cardinality(selected_paths) >= 2
    /\ PROJECT_TREE_VIRTUAL_PATH \in DOMAIN partial_docs

\* C5: the text a rebuild stores depends on the cache's key-to-fragment mapping
\* only: whatever order the HashMap is iterated in gives the text that was stored.
C5_MergeIndependentOfOrder ==
    RebuildJustCommitted
    => \A order \in Orders(DOMAIN partial_docs) :
          cached_xml = merge_all_snippets(partial_docs, order)

C5_Witness ==
    /\ RebuildJustCommitted
    /\ PROJECT_TREE_VIRTUAL_PATH \in DOMAIN partial_docs
    /\ \E p, q \in selected_paths : partial_docs[p].body # partial_docs[q].body

\* C6: right after a committed rebuild token_count is the tokenizer's count of the
\* cached_xml the same rebuild stored.
C6_TokenCountFreshAfterRebuild ==
    RebuildJustCommitted => token_count = calculate_tokens_in_string(cached_xml)

C6_Witness ==
    /\ RebuildJustCommitted
    /\ selected_paths # {}
    /\ Pre.token_count # token_count
    /\ Pre.cached_xml # <<>>

\* C7: at the end of every command token_count is the tokenizer's count of
\* cached_xml.
C7_TokenCountMatchesDocument ==
    pc \in {"done", "read"} => token_count = calculate_tokens_in_string(cached_xml)

\* C8: after every completed refresh the cache keys are the selected paths plus
\* the tree key.
RefreshCompleted ==
    \/ RebuildJustCommitted
    \/ cmd.kind = "Copy" /\ (pc = "copy_clip" \/ (pc = "done" /\ result = "ok"))
C8_CacheKeysAfterRefresh ==
    RefreshCompleted
    => DOMAIN partial_docs = selected_paths \cup {PROJECT_TREE_VIRTUAL_PATH}

C8_Witness ==
    /\ pc = "done" /\ cmd.kind = "Copy" /\ result = "ok"
    /\ selected_paths = Paths
    /\ partial_docs # Pre.partial_docs

\* C9: in no state of a remove, between its steps or after it, has a path left
\* selected_paths while its fragment is still in partial_docs.
C9_RemoveLeavesNoOrphan ==
    (InCommand /\ cmd.kind = "Remove")
    => \A p \in Pre.selected_paths \ selected_paths : p \notin DOMAIN partial_docs

C9_Witness ==
    /\ cmd.kind = "Remove" /\ pc = "tree_gen"
    /\ Pre.selected_paths \ selected_paths # {}
    /\ selected_paths # {}

\* C10: a reset issued in Manual mode shows only two kinds of state: AppState as
\* it was before, or selected_paths, partial_docs, cached_xml, prompt_text empty
\* and file_count, token_count 0 (mode and editor mode kept); it ends in the latter.
C10_ResetClearsAtOnce ==
    (InCommand /\ cmd.kind = "Reset" /\ Pre.mode = "Manual")
    => \/ pc \in {"exec_mode", "reset"} /\ AppRec = Pre
       \/ /\ pc = "done" /\ result = "ok"
          /\ selected_paths = {} /\ file_count = 0 /\ token_count = 0
          /\ partial_docs = EmptyMap /\ cached_xml = <<>> /\ prompt_text = <<>>
          /\ mode = Pre.mode /\ editor_mode = Pre.editor_mode

C10_Witness ==
    /\ pc = "done" /\ cmd.kind = "Reset" /\ result = "ok"
    /\ Pre.selected_paths # {} /\ Pre.prompt_text # <<>> /\ Pre.cached_xml # <<>>
    /\ PROJECT_TREE_VIRTUAL_PATH \in DOMAIN Pre.partial_docs /\ Pre.token_count > 0
    /\ selected_paths = {} /\ partial_docs = EmptyMap

\* An accepted command has returned Ok.
Succeeded == InCommand /\ pc = "done" /\ result = "ok" /\ notice = "none"

\* C11: every successful add leaves selected_paths = (selection before) union (the
\* resolved files), every successful remove leaves (selection before) minus (the
\* resolved files), so that from the empty selection a sequence of them gives the
\* fold of union and difference; an add resolving to files that are all selected
\* already changes no field of AppState.
C11_SelectionFoldsUnionAndDifference ==
    Succeeded
    => /\ cmd.kind = "Add" => selected_paths = Pre.selected_paths \cup scanned
       /\ cmd.kind = "Remove" => selected_paths = Pre.selected_paths \ scanned
       /\ (cmd.kind = "Add" /\ scanned # {} /\ scanned \subseteq Pre.selected_paths)
          => AppRec = Pre

C11_Witness ==
    /\ Succeeded /\ cmd.kind = "Add"
    /\ scanned \ Pre.selected_paths # {}
    /\ Pre.selected_paths \ scanned # {}
    /\ selected_paths = Paths

C11_WitnessReAdd ==
    /\ Succeeded /\ cmd.kind = "Add"
    /\ scanned # {} /\ scanned \subseteq Pre.selected_paths

\* C12: after a successful copy the document holds 1 + |selected_paths| <document>
\* elements: the tree with index 1, then exactly the selected files, ascending by
\* path, with the indices 2, 3, ... without gaps (so no file outside the
\* selection, such as one removed earlier, appears).
C12_CopyDocumentsAreTreeThenSelection ==
    (Succeeded /\ cmd.kind = "Copy")
    => LET docs == Documents(cached_xml)
           n == Len(docs)
       IN /\ n = 1 + Cardinality(selected_paths)
          /\ docs[1].source = PROJECT_TREE_VIRTUAL_PATH
          /\ \A i \in 1..n : docs[i].index = i
          /\ \A i \in 2..n : docs[i].source \in selected_paths
          /\ \A i \in 2..n : i < n => docs[i].source < docs[i + 1].source

C12_Witness ==
    /\ Succeeded /\ cmd.kind = "Copy"
    /\ Cardinality(selected_paths) >= 2
    /\ Len(Documents(cached_xml)) = 1 + Cardinality(selected_paths)
    /\ \E i \in 1..Len(cached_xml) : cached_xml[i].tag = "instruction"

\* The mode and editor mode in which the buffer in sig was read.
ReadMode == IF pre # <<>> THEN Pre.mode ELSE mode
ReadEditorMode == IF pre # <<>> THEN Pre.editor_mode ELSE editor_mode
\* A line without the command sigil has been read in (Prompt, SingleLine).
FreeTextRead ==
    /\ sig.kind = "Success" /\ ReadMode = "Prompt" /\ ReadEditorMode = "SingleLine"
    /\ ~StartsWithSlash(sig.buffer)

\* C13 (as stated): in (Prompt, SingleLine) every input line without the command
\* sigil becomes an append of that line to the pending instruction.
C13_EveryFreeLineAppended ==
    FreeTextRead => cmd = Cmd("AppendPromptText", sig.buffer)

\* C13 (amended): in (Prompt, SingleLine) every input line that is not blank and
\* has no command sigil is dispatched as an append of that line, never parsed, and
\* appends it after a single newline (no newline when the pending instruction is
\* empty); after appending l1..lk to an empty pending instruction it is l1..lk
\* joined by single newlines.  A blank line is dropped without any command.
C13_NonBlankFreeLineAppended ==
    /\ (FreeTextRead /\ Trim(sig.buffer) # <<>>)
       => /\ cmd = Cmd("AppendPromptText", sig.buffer)
          /\ pc = "done"
             => /\ result = "ok"
                /\ prompt_text = IF Pre.prompt_text = <<>> THEN sig.buffer
                                 ELSE Pre.prompt_text \o <<NL>> \o sig.buffer
    /\ (FreeTextRead /\ Trim(sig.buffer) = <<>>) => cmd = NoCmd /\ pc = "read"
    /\ appended # <<>> => prompt_text = Join(appended)

C13_Witness ==
    /\ pc = "done" /\ cmd.kind = "AppendPromptText"
    /\ Len(appended) = 3 /\ appended[1] # appended[2]
    /\ prompt_text = Join(appended)

\* C14: the document a copy produces holds an <instruction> element if and only
\* if prompt_text is not empty; it is then the only one, its body is prompt_text
\* unchanged, it comes after every <document> element and the closing root tag
\* follows it directly.
C14_InstructionElementIffPending ==
    (cmd.kind = "Copy" /\ (pc = "copy_clip" \/ Succeeded))
    => LET n == Len(xml_to_copy)
           instr == {i \in 1..n : xml_to_copy[i].tag = "instruction"}
       IN /\ xml_to_copy = cached_xml
          /\ xml_to_copy[1] = OpenTag /\ xml_to_copy[n] = CloseTag
          /\ IF prompt_text = <<>>
             THEN instr = {}
             ELSE /\ instr = {n - 1}
                  /\ xml_to_copy[n - 1].body = prompt_text
                  /\ \A i \in 2..(n - 2) : xml_to_copy[i].tag = "document"

C14_Witness ==
    /\ Succeeded /\ cmd.kind = "Copy"
    /\ selected_paths # {}
    /\ \E i \in 1..Len(prompt_text) : prompt_text[i] = NL
    /\ xml_to_copy[Len(xml_to_copy) - 1].tag = "instruction"

C14_WitnessNoInstruction ==
    /\ Succeeded /\ cmd.kind = "Copy"
    /\ prompt_text = <<>> /\ Pre.cached_xml # <<>>
    /\ \E i \in 1..Len(Pre.cached_xml) : Pre.cached_xml[i].tag = "instruction"

\* C15: in every reachable state editor_mode = MultiLine implies mode = Prompt.
C15_MultiLineOnlyInPrompt ==
    editor_mode = "MultiLine" => mode = "Prompt"

C15_Witness ==
    /\ editor_mode = "MultiLine" /\ pc = "read" /\ running
    /\ selected_paths # {} /\ prompt_text # <<>>

\* The step in progress is the body of a mode command naming the mode `name`
\* (in any letter case).
ModeCommandNaming(name) ==
    /\ pc = "mode_cmd" /\ locked
    /\ cmd.kind = "Mode" /\ cmd.arg # <<>>
    /\ to_lowercase(cmd.arg[1]) = name
\* The step in progress is the first scope of the Command::Prompt arm.
PromptCommandStep == pc = "prompt_switch" /\ locked /\ cmd.kind = "Prompt"

\* C16: a step takes mode from Prompt to Manual only if it is the body of a mode
\* command naming manual.
C16_PromptToManualOnlyByModeCommand ==
    [][(mode = "Prompt" /\ mode' = "Manual") => ModeCommandNaming("manual")]_vars

C16_Witness ==
    /\ pc = "done" /\ cmd = Cmd("Mode", <<"manual">>)
    /\ Pre.mode = "Prompt" /\ mode = "Manual" /\ prompt_text # <<>>

\* C17: a step takes mode from Manual to Prompt only if it is the body of a mode
\* command naming prompt or of a /prompt command, and both of these, run in
\* Manual mode, do take it to Prompt.
C17_ManualToPromptInTwoCases ==
    [][/\ (mode = "Manual" /\ mode' = "Prompt")
          => (ModeCommandNaming("prompt") \/ PromptCommandStep)
       /\ (mode = "Manual" /\ (ModeCommandNaming("prompt") \/ PromptCommandStep))
          => mode' = "Prompt"]_vars

C17_Witness ==
    /\ pc = "done" /\ cmd = Cmd("Mode", <<"Prompt">>)
    /\ Pre.mode = "Manual" /\ mode = "Prompt" /\ notice = "switched"

\* A multi-line capture has been submitted and its text stored; the editor is
\* about to be put back.
Committing == pc = "exit_ml" /\ sig.kind = "Success"
\* The captured lines without the last one (the sentinel line).
CapturedLines == LET ls == Lines(sig.buffer) IN SubSeq(ls, 1, Len(ls) - 1)

\* C18: when a capture ending with the sentinel line is submitted, prompt_text is
\* the captured lines without the sentinel line joined by newlines, whatever it
\* was before; no other field has changed, and the step that ends the commit
\* leaves (Prompt, SingleLine) with that prompt_text.
C18_CommitReplacesInstruction ==
    [][Committing
       => /\ prompt_text = Join(CapturedLines)
          /\ AppRec = [Pre EXCEPT !.prompt_text = Join(CapturedLines)]
          /\ prompt_text' = prompt_text /\ mode' = "Prompt"
          /\ ~Committing' => (editor_mode' = "SingleLine" /\ pc' = "read")]_vars

C18_Witness ==
    /\ Committing /\ locked
    /\ Pre.prompt_text # <<>>
    /\ prompt_text = <<"x", NL, "y">>
    /\ Pre.prompt_text # prompt_text

\* An interrupt has been read in the multi-line editor and is being handled.
Cancelling == pc = "exit_ml" /\ sig.kind = "Interrupt"

\* C19: an interrupt read while editor_mode = MultiLine changes no field of
\* AppState when it is read nor while it is handled, except that the step ending
\* it sets editor_mode = SingleLine; the loop keeps running and goes back to
\* reading.
C19_InterruptCancelsCapture ==
    [][/\ Cancelling' => (running' /\ AppRec' = AppRec)
       /\ (Cancelling /\ ~Cancelling')
          => /\ AppRec' = [AppRec EXCEPT !.editor_mode = "SingleLine"]
             /\ editor_mode = "MultiLine"
             /\ running' /\ pc' = "read"]_vars

C19_Witness ==
    /\ Cancelling /\ locked
    /\ editor_mode = "MultiLine" /\ prompt_text # <<>> /\ selected_paths # {}

\* C20: a capture entered with a non-empty prompt_text and submitted at once with
\* the sentinel line alone leaves prompt_text as it was.
C20_SentinelOnlyCommitKeepsInstruction ==
    (Committing /\ CapturedLines = <<>> /\ Pre.prompt_text # <<>>)
    => prompt_text = Pre.prompt_text

\* execute has returned the error of scan_dir: the only `?` of add and remove
\* that comes before the tree is rendered.
ScanFailed ==
    /\ InCommand /\ pc = "done" /\ result = "err"
    /\ cmd.kind \in {"Add", "Remove"} /\ tree_snippet = <<>>

\* C21: an add or remove whose target does not exist returns an error from
\* execute and leaves every field of AppState as it was when the command was
\* issued; no lock scope of the command has run.
C21_MissingTargetChangesNothing ==
    /\ ScanFailed => (AppRec = Pre /\ ~locked /\ scanned = {} /\ new_snips = EmptyMap)
    /\ (pc \in {"add_scan", "rm_scan"}) => AppRec = Pre

C21_Witness ==
    /\ ScanFailed /\ cmd.kind = "Remove"
    /\ selected_paths # {} /\ cached_xml # <<>> /\ prompt_text # <<>>

\* execute has returned the error of calculate_tokens_in_string: rebuild_and_recalc
\* is the only step that fails after the tree has been rendered.
TokenizerFailed ==
    /\ InCommand /\ pc = "done" /\ result = "err"
    /\ cmd.kind \in {"Add", "Remove", "Copy"} /\ tree_snippet # <<>>

\* C22: when the tokenizer fails during add, remove or copy, token_count keeps its
\* value and the command has changed no field of AppState.
C22_TokenizerFailureChangesNothing ==
    TokenizerFailed => (token_count = Pre.token_count /\ AppRec = Pre)

\* copy has returned after copy_to_clipboard failed.
ClipboardFailed == InCommand /\ pc = "done" /\ cmd.kind = "Copy" /\ clip = "failed"

\* C23: when the clipboard write of a copy fails, execute still returns Ok, and
\* AppState holds what this copy's refresh produced: the cache read by this copy,
\* the document merged from it (with the instruction the copy put in) and the
\* token count of that merged document.
C23_ClipboardFailureKeepsRefresh ==
    ClipboardFailed
    => LET merged == merge_all_snippets(partial_docs,
                         CHOOSE o \in Orders(DOMAIN partial_docs) : TRUE)
       IN /\ result = "ok"
          /\ partial_docs = InsertAll(new_snips, TreeEntry(tree_snippet[1]))
          /\ Documents(cached_xml) = Documents(merged)
          /\ cached_xml = xml_to_copy
          /\ token_count = calculate_tokens_in_string(merged)

C23_Witness ==
    /\ ClipboardFailed
    /\ selected_paths # {}
    /\ Pre.cached_xml # <<>> /\ Documents(cached_xml) # Documents(Pre.cached_xml)
    /\ token_count # Pre.token_count

\* The files of the command's batch have been read; their snippets have been
\* stored in the cache.
BatchRead == InCommand /\ reads # EmptyMap
BatchStored == BatchRead /\ pc \notin {"afs_insert", "fr_tree", "fr_insert"}
\* The body of the snippet a read result must give.
BodyOf(r) == IF r.ok THEN r.text ELSE <<>>

\* C24: when the read of a file of the batch fails (add or full refresh), that
\* path still gets a snippet, with empty content, the other paths get snippets
\* with their text, all of them are stored in the cache, and the command does
\* not return an error on account of the failed read.
C24_UnreadableFileGetsEmptySnippet ==
    /\ BatchRead
       => /\ DOMAIN reads = scanned /\ DOMAIN new_snips = scanned
          /\ \A f \in scanned :
                new_snips[f] = generate_single_file_snippet(f, BodyOf(reads[f]), 0)
    /\ BatchStored
       => \A f \in scanned :
             f \in DOMAIN partial_docs /\ partial_docs[f].body = BodyOf(reads[f])
    /\ (BatchRead /\ pc = "done" /\ bpe_loads) => result = "ok"

C24_Witness ==
    /\ BatchStored /\ pc = "done" /\ result = "ok" /\ cmd.kind = "Add"
    /\ \E f, g \in scanned :
          /\ ~reads[f].ok /\ partial_docs[f].body = <<>>
          /\ reads[g].ok /\ partial_docs[g].body # <<>>
          /\ {f, g} \subseteq {d.source : d \in {cached_xml[i] : i \in 1..Len(cached_xml)}}

C24_WitnessRefresh ==
    /\ BatchStored /\ pc = "done" /\ result = "ok" /\ cmd.kind = "Copy"
    /\ \E f, g \in scanned :
          /\ ~reads[f].ok /\ partial_docs[f].body = <<>> /\ Pre.partial_docs[f].body # <<>>
          /\ reads[g].ok /\ partial_docs[g].body # <<>>

\* A text holds an <instruction> element.
HasInstruction(text) == \E i \in 1..Len(text) : text[i].tag = "instruction"
\* A copy is in progress.
Copying == InCommand /\ cmd.kind = "Copy"
\* The steps of copy up to the token recompute come in the order: cache cleared
\* and refilled from the selection and the tree, then merged and counted, all
\* before the clipboard is written.
CopyRefreshThenRecount ==
    /\ (Copying /\ pc = "rebuild")
       => /\ partial_docs = InsertAll(new_snips, TreeEntry(tree_snippet[1]))
          /\ DOMAIN partial_docs = selected_paths \cup {PROJECT_TREE_VIRTUAL_PATH}
          /\ clip = "none"
    /\ (Copying /\ pc = "copy_instr")
       => /\ token_count = calculate_tokens_in_string(cached_xml)
          /\ ~HasInstruction(cached_xml)
          /\ clip = "none"

\* C25 (as stated): copy refreshes the cache, recomputes the token count, writes
\* the clipboard and only then appends the instruction: as long as the clipboard
\* has not been written, no instruction has been put into the document.
C25_ClipboardWriteBeforeInstruction ==
    /\ CopyRefreshThenRecount
    /\ (Copying /\ clip = "none") => ~HasInstruction(xml_to_copy)

\* C25 (amended): copy refreshes the cache, recomputes the token count, puts the
\* pending instruction into the document and then writes the clipboard: when the
\* write is about to happen the text to write is the stored document and holds
\* the instruction if one is pending, and nothing is appended after the write.
C25_InstructionBeforeClipboardWrite ==
    /\ CopyRefreshThenRecount
    /\ (Copying /\ pc = "copy_clip")
       => /\ clip = "none"
          /\ xml_to_copy = cached_xml
          /\ HasInstruction(xml_to_copy) <=> prompt_text # <<>>
    /\ (Copying /\ clip # "none")
       => /\ pc = "done" /\ xml_to_copy = cached_xml
          /\ HasInstruction(cached_xml) <=> prompt_text # <<>>

C25_Witness ==
    /\ Copying /\ pc = "done" /\ clip = "written"
    /\ selected_paths # {} /\ prompt_text # <<>>
    /\ HasInstruction(xml_to_copy)

\* The positions at which blocking work is done: scan_dir walks the file system,
\* the read loops read files, generate_project_tree_string renders the tree.
BlockingPcs == {"add_scan", "rm_scan", "afs_read", "tree_gen", "fr_read", "fr_tree"}

C27_BatchCommittedAsAWhole ==
    ~locked
    => /\ BatchRead
          => \/ \A f \in scanned : f \in DOMAIN partial_docs /\ partial_docs[f] = new_snips[f]
             \/ partial_docs \in {Pre.partial_docs, EmptyMap}
       /\ Copying => selected_paths \subseteq DOMAIN partial_docs

\* A command, a commit or a cancel has run to its end: AppState is what the next
\* read_line will find.
AtBoundary == pre # <<>> /\ pc \in {"done", "exit_ml"}
HasTreeKey(cache) == PROJECT_TREE_VIRTUAL_PATH \in DOMAIN cache
\* The command in progress is a reset that the mode allows.
ResetAccepted == cmd.kind = "Reset" /\ Pre.mode = "Manual"

\* C29 (as stated): a command that has refreshed ends with the tree key in the
\* cache, and every command that starts with the tree key in the cache ends with
\* it in the cache, reset and remove included; so the key, once put in by a
\* refresh, is there at every later command boundary.
C29_TreeKeyKeptByEveryCommand ==
    AtBoundary
    => /\ tree_snippet # <<>> => HasTreeKey(partial_docs)
       /\ HasTreeKey(Pre.partial_docs) => HasTreeKey(partial_docs)

\* C29 (amended): a command that has refreshed ends with the tree key in the
\* cache, and every command other than an accepted reset that starts with the
\* key in the cache ends with it there (remove included); an accepted reset
\* empties the cache, tree key included.
C29_TreeKeyKeptUntilReset ==
    AtBoundary
    => /\ tree_snippet # <<>> => HasTreeKey(partial_docs)
       /\ (HasTreeKey(Pre.partial_docs) /\ ~ResetAccepted) => HasTreeKey(partial_docs)
       /\ ResetAccepted => partial_docs = EmptyMap

C29_Witness ==
    /\ AtBoundary /\ Succeeded /\ cmd.kind = "Remove" /\ num_changed > 0
    /\ Pre.selected_paths # {} /\ selected_paths = {}
    /\ HasTreeKey(Pre.partial_docs) /\ DOMAIN partial_docs = {PROJECT_TREE_VIRTUAL_PATH}

\* The session is in (Prompt, MultiLine).
InCapture == mode = "Prompt" /\ editor_mode = "MultiLine"
\* What the user is assumed to do: whenever the multi-line editor waits for
\* input, a capture ending with the sentinel line or an interrupt arrives.
CaptureEndsArrive ==
    [](editor_mode = "MultiLine" /\ pc = "read" => <>(pc \in {"ml_commit", "exit_ml"}))

\* C28: every step that leaves (Prompt, MultiLine) lands in (Prompt, SingleLine);
\* and if a sentinel-terminated capture or an interrupt always arrives in the end,
\* every state with editor_mode = MultiLine is followed by one with
\* editor_mode = SingleLine.
C28_MultiLineIsTransient ==
    /\ [][(InCapture /\ ~InCapture') => (mode' = "Prompt" /\ editor_mode' = "SingleLine")]_vars
    /\ CaptureEndsArrive => (editor_mode = "MultiLine" ~> editor_mode = "SingleLine")

C28_Witness ==
    /\ pc = "read" /\ mode = "Prompt" /\ editor_mode = "SingleLine"
    /\ prompt_text # <<>> /\ appended = <<>> /\ selected_paths # {}

\* An entry is the final element of its parent's sorted child list.
IsLastChild(p, entries) == \A q \in entries : Parent(q) = Parent(p) => PathLeq(q, p)

\* C30: in the rendered tree the branch marker of every entry below the root is
\* the corner glyph if and only if the entry is the last of its parent's sorted
\* children, and the tee glyph otherwise.
C30_CornerIffLastSibling ==
    tb.stage \in {"build", "done"}
    => \A i \in 2..Len(tb.lines) :
          /\ tb.lines[i].branch \in {CORNER, TEE}
          /\ tb.lines[i].branch = CORNER <=> IsLastChild(tb.lines[i].path, tb.entries)

\* The orders in which the per-directory map of the call can be iterated.
MapOrders == Orders(DOMAIN tb.dir_children)

\* The call in progress renders what Render gives for one of the map's orders.
RenderedInSomeOrder ==
    tb.stage = "done"
    => \E order \in MapOrders : tb.lines = Render(tb.walk, tb.dir_children, order)

\* C31: for fixed enumerated paths (the same entries, yielded by the walker in the
\* same order) the text generate returns is the same whatever the order in which
\* the per-directory map is iterated: the lines of a finished call are the lines
\* of every other call on the same tree.
C31_TreeTextIndependentOfMapOrder ==
    tb.stage = "done"
    => \A order \in MapOrders : tb.lines = Render(tb.walk, tb.dir_children, order)

\* C32: whatever argument under the root scan_dir is given (a directory or a
\* single file), every file it resolves is a file the tree renderer lists when it
\* walks the root with the same IgnoreConfig.
C32_ResolvedFilesAreListedInTree ==
    sd.stage = "done" => \A f \in sd.files : f \in TreeLists(sd.fs, sd.skips_nm)

\* The keys of the cache other than the virtual tree key.
RealKeys(cache) == DOMAIN cache \ {PROJECT_TREE_VIRTUAL_PATH}

\* C33: in every reachable state, the states between the steps of a command
\* included, every non-virtual key of the cache is a selected path.
C33_CacheKeysAreSelected == RealKeys(partial_docs) \subseteq selected_paths

\* Between the two scopes of an add: the selection already holds the new path,
\* the cache holds only the older one.
C33_Witness ==
    /\ pc = "afs_insert" /\ ~locked /\ cmd.kind = "Add"
    /\ RealKeys(partial_docs) # {}
    /\ selected_paths \ RealKeys(partial_docs) # {}

\* C34: in every state in which the mutex is free, file_count is the number of
\* selected paths; only an add, a remove or a reset changes either, and each
\* changes both in one lock scope.
C34_FileCountIsSelectionSize ==
    /\ ~locked => file_count = Cardinality(selected_paths)
    /\ (InCommand /\ (file_count # Pre.file_count \/ selected_paths # Pre.selected_paths))
       => cmd.kind \in {"Add", "Remove", "Reset"}

\* A remove has just shrunk the selection from two paths to one.
C34_Witness ==
    /\ pc = "tree_gen" /\ ~locked /\ cmd.kind = "Remove"
    /\ Pre.file_count = 2 /\ file_count = 1 /\ Cardinality(selected_paths) = 1

\* The number of <instruction> elements of a text.
InstructionCount(text) ==
    Cardinality({i \in 1..Len(text) : text[i].tag = "instruction"})

\* The copy in progress has put its instruction in and is not the first to do so:
\* the document it started from held one already.
RepeatedCopy ==
    /\ Copying /\ pc \in {"copy_clip", "done"} /\ result # "err"
    /\ prompt_text # <<>> /\ HasInstruction(Pre.cached_xml)

\* C35: the stored document never holds more than one <instruction> element, and
\* once a copy with a non-empty prompt_text has put its instruction in, it holds
\* exactly one, however many copies came before.
C35_OneInstructionElement ==
    /\ InstructionCount(cached_xml) <= 1
    /\ (Copying /\ pc \in {"copy_clip", "done"} /\ result # "err" /\ prompt_text # <<>>)
       => /\ InstructionCount(cached_xml) = 1
          /\ InstructionCount(xml_to_copy) = 1

C35_Witness ==
    /\ RepeatedCopy /\ pc = "done"
    /\ InstructionCount(cached_xml) = 1 /\ selected_paths # {}

\* The positions run can be at while editor_mode = MultiLine: the rest of the
\* /prompt command that entered the capture, read_line, and the commit or cancel.
CapturePcs == {"read", "enter_ml_show", "done", "ml_commit", "exit_ml"}

\* A capture whose first line begins with the command sigil has been committed.
SigilCaptureCommitted ==
    /\ pc = "exit_ml" /\ sig.kind = "Success" /\ StartsWithSlash(sig.buffer)

\* C36: while editor_mode = MultiLine no command is dispatched (the only command
\* in progress is the /prompt that entered the capture); no step taken in
\* MultiLine changes selected_paths, partial_docs, cached_xml, token_count or
\* mode; and a captured line that begins with the sigil becomes instruction text.
C36_NoDispatchDuringCapture ==
    /\ [](editor_mode = "MultiLine"
            => /\ pc \in CapturePcs
               /\ cmd.kind \in {"None", "Prompt"}
               /\ pc \in {"ml_commit", "exit_ml"} => cmd = NoCmd)
    /\ [][editor_mode = "MultiLine"
            => UNCHANGED <<selected_paths, partial_docs, cached_xml, token_count, mode>>]_vars
    /\ [](SigilCaptureCommitted
            => /\ prompt_text \in SigilLines
               /\ sig.buffer \in {Join(<<prompt_text, sl>>) : sl \in SentinelLines}
               /\ <<selected_paths, partial_docs, cached_xml, token_count, mode>>
                    = <<Pre.selected_paths, Pre.partial_docs, Pre.cached_xml,
                        Pre.token_count, Pre.mode>>)

\* A capture holding the line "/reset" has been committed in a session that has a
\* selection and a document: both are still there.
C36_Witness ==
    /\ SigilCaptureCommitted /\ prompt_text = <<"/reset">>
    /\ selected_paths # {} /\ cached_xml # <<>> /\ token_count > 0

\* The command in progress is a /prompt issued in (Manual, SingleLine).
PromptFromManual ==
    /\ InCommand /\ cmd.kind = "Prompt"
    /\ Pre.mode = "Manual" /\ Pre.editor_mode = "SingleLine"

\* C37: a /prompt issued in (Manual, SingleLine) keeps prompt_text at every step,
\* never shows MultiLine without Prompt, has reached (Prompt, MultiLine) when
\* execute returns, and the loop is back at read_line in (Prompt, MultiLine).
C37_PromptFromManualEntersCapture ==
    /\ [](PromptFromManual
            => /\ prompt_text = Pre.prompt_text
               /\ editor_mode = "MultiLine" => mode = "Prompt"
               /\ pc = "done"
                  => (result = "ok" /\ mode = "Prompt" /\ editor_mode = "MultiLine"))
    /\ (PromptFromManual /\ pc = "exec_mode")
         ~> (pc = "read" /\ cmd = NoCmd /\ mode = "Prompt" /\ editor_mode = "MultiLine")

C37_Witness ==
    /\ PromptFromManual /\ pc = "done"
    /\ mode = "Prompt" /\ editor_mode = "MultiLine"
    /\ prompt_text # <<>> /\ selected_paths # {}

\* An accepted add has returned Ok after scan_dir resolved its argument to no
\* file / to files that were all selected already.
EmptyAdd == Succeeded /\ cmd.kind = "Add" /\ scanned = {}
ReAdd == Succeeded /\ cmd.kind = "Add" /\ scanned # {} /\ scanned \subseteq Pre.selected_paths

\* C38: an add that resolves to no file leaves selected_paths and file_count as
\* they were, stores the tree snippet rendered by this command under the virtual
\* key, keeps the other cache entries, and stores the document merged from the
\* cache with its token count; an add that resolves only to files already
\* selected renders no tree and leaves cache, document and token count as they
\* were.
C38_EmptyAddRefreshesReAddDoesNot ==
    /\ EmptyAdd
       => /\ selected_paths = Pre.selected_paths /\ file_count = Pre.file_count
          /\ tree_snippet # <<>>
          /\ partial_docs = InsertAll(Pre.partial_docs, TreeEntry(tree_snippet[1]))
          /\ cached_xml = merge_all_snippets(partial_docs,
                              CHOOSE o \in Orders(DOMAIN partial_docs) : TRUE)
          /\ token_count = calculate_tokens_in_string(cached_xml)
    /\ ReAdd
       => /\ tree_snippet = <<>> /\ new_snips = EmptyMap
          /\ partial_docs = Pre.partial_docs
          /\ cached_xml = Pre.cached_xml
          /\ token_count = Pre.token_count

\* An empty add in a session whose document held an instruction: the document
\* has been merged again.
C38_Witness ==
    /\ EmptyAdd /\ Pre.selected_paths # {}
    /\ HasInstruction(Pre.cached_xml) /\ ~HasInstruction(cached_xml)
    /\ cached_xml # Pre.cached_xml /\ token_count > 0

C38_WitnessReAdd ==
    /\ ReAdd /\ HasInstruction(cached_xml) /\ token_count # calculate_tokens_in_string(cached_xml)

\* C39: the mutex is held only between the start and the end of one lock scope;
\* every step taken with the mutex held releases it, the mutex is taken only
\* when it is free, and run arrives at the start of every scope with the mutex
\* free; it is free whenever execute has returned (with Ok or Err) and whenever
\* run is at read_line; and a command in progress can always take its next step.
C39_LockFreeAtBoundariesNoReacquire ==
    /\ [](locked => pc \in CriticalPcs)
    /\ [](pc \in {"read", "done"} => ~locked)
    /\ [][locked => ~locked']_vars
    /\ [][(locked' /\ ~locked) => (pc \in CriticalPcs /\ pc' = pc)]_vars
    /\ [][(pc' \in CriticalPcs /\ pc' # pc) => ~locked']_vars
    /\ []((running /\ pc # "read") => ENABLED Next)

\* A copy has returned the tokenizer's error after its lock scopes.
C39_Witness ==
    /\ InCommand /\ cmd.kind = "Copy" /\ pc = "done" /\ result = "err"
    /\ ~locked /\ tree_snippet # <<>> /\ selected_paths # {}

\* A mode command has returned, and the mode it names (in any letter case), if it
\* names one.
ModeCommandDone == InCommand /\ pc = "done" /\ cmd.kind = "Mode"
NamedMode ==
    IF cmd.arg = <<>> THEN "none"
    ELSE CASE to_lowercase(cmd.arg[1]) = "manual" -> "Manual"
           [] to_lowercase(cmd.arg[1]) = "prompt" -> "Prompt"
           [] OTHER -> "none"

\* C40: a mode command returns Ok having changed no field of AppState other than
\* mode; mode is the named mode when the argument names manual or prompt, and is
\* unchanged when there is no argument or the name is not recognised; no step of
\* the command changes another field.
C40_ModeCommandChangesOnlyMode ==
    /\ ModeCommandDone
       => /\ result = "ok"
          /\ AppRec = [Pre EXCEPT !.mode = mode]
          /\ mode = IF NamedMode = "none" THEN Pre.mode ELSE NamedMode
    /\ (InCommand /\ cmd.kind = "Mode" /\ pc # "done") => AppRec = Pre

\* A mode command with an unrecognised name has returned in a Prompt session that
\* has a selection, a document and a pending instruction.
C40_Witness ==
    /\ ModeCommandDone /\ cmd.arg = <<"bogus">> /\ notice = "unknown_mode"
    /\ mode = "Prompt" /\ prompt_text # <<>>
    /\ selected_paths # {} /\ cached_xml # <<>>

C40_WitnessSwitch ==
    /\ ModeCommandDone /\ NamedMode = "Manual" /\ Pre.mode = "Prompt" /\ mode = "Manual"
    /\ prompt_text # <<>> /\ selected_paths # {}

====
